---- MODULE Spec2Model ----
(***************************************************************************)
(* A model of the Copilot Memory Store core (src/src/memoryStore.ts): the  *)
(* JSON-file record store with its lock-marker protocol, and the pure      *)
(* keyword, scoring, search and compression functions.                     *)
(*                                                                         *)
(* Strings are sequences of one-character strings.  A file's content is a  *)
(* sequence of JSON tokens, so that a write that stops half-way leaves a   *)
(* proper prefix of the document.  Timestamps are whole days.              *)
(***************************************************************************)
EXTENDS Integers, Sequences, FiniteSets, TLC

----------------------------------------------------------------------------
(* Strings *)

\* String.prototype.toLowerCase on the letters A-Z
UpperToLower ==
    ("A" :> "a") @@ ("B" :> "b") @@ ("C" :> "c") @@ ("D" :> "d") @@ ("E" :> "e") @@ ("F" :> "f") @@
    ("G" :> "g") @@ ("H" :> "h") @@ ("I" :> "i") @@ ("J" :> "j") @@ ("K" :> "k") @@ ("L" :> "l") @@
    ("M" :> "m") @@ ("N" :> "n") @@ ("O" :> "o") @@ ("P" :> "p") @@ ("Q" :> "q") @@ ("R" :> "r") @@
    ("S" :> "s") @@ ("T" :> "t") @@ ("U" :> "u") @@ ("V" :> "v") @@ ("W" :> "w") @@ ("X" :> "x") @@
    ("Y" :> "y") @@ ("Z" :> "z")

toLowerChar(c) == IF c \in DOMAIN UpperToLower THEN UpperToLower[c] ELSE c

toLowerCase(s) == [i \in 1..Len(s) |-> toLowerChar(s[i])]

\* the characters \s matches and trim() strips
IsWs(c) == c \in {" ", "\t", "\n", "\r"}

RECURSIVE trimStart(_)
trimStart(s) ==
    IF s = <<>> THEN <<>>
    ELSE IF IsWs(Head(s)) THEN trimStart(Tail(s)) ELSE s

RECURSIVE trimEnd(_)
trimEnd(s) ==
    IF s = <<>> THEN <<>>
    ELSE IF IsWs(s[Len(s)]) THEN trimEnd(SubSeq(s, 1, Len(s) - 1)) ELSE s

\* String.prototype.trim
trim(s) == trimEnd(trimStart(s))

RECURSIVE SplitFrom(_, _, _, _, _)
SplitFrom(s, i, cur, acc, inWs) ==
    IF i > Len(s) THEN Append(acc, cur)
    ELSE IF IsWs(s[i])
         THEN IF inWs THEN SplitFrom(s, i + 1, cur, acc, TRUE)
              ELSE SplitFrom(s, i + 1, <<>>, Append(acc, cur), TRUE)
         ELSE SplitFrom(s, i + 1, Append(cur, s[i]), acc, FALSE)

\* s.split(/\s+/): the pieces between runs of whitespace, empty pieces at
\* the ends included
splitWs(s) == SplitFrom(s, 1, <<>>, <<>>, FALSE)

RECURSIVE CountFrom(_, _, _)
CountFrom(tok, text, i) ==
    IF i + Len(tok) - 1 > Len(text) THEN 0
    ELSE IF SubSeq(text, i, i + Len(tok) - 1) = tok
         THEN 1 + CountFrom(tok, text, i + Len(tok))
         ELSE CountFrom(tok, text, i + 1)

\* text.match(new RegExp(escapeRe(tok), "g"))?.length || 0: the leftmost
\* non-overlapping occurrences of the literal tok (tok is never empty)
matchCount(tok, text) == CountFrom(tok, text, 1)

\* String.prototype.includes
includes(hay, needle) ==
    \E i \in 1..(Len(hay) - Len(needle) + 1) :
        SubSeq(hay, i, i + Len(needle) - 1) = needle

\* the elements of a sequence
Range(s) == {s[i] : i \in 1..Len(s)}

RECURSIVE Join(_, _)
\* Array.prototype.join
Join(parts, sep) ==
    IF parts = <<>> THEN <<>>
    ELSE IF Len(parts) = 1 THEN parts[1]
    ELSE parts[1] \o sep \o Join(Tail(parts), sep)

----------------------------------------------------------------------------
(* Keyword extraction and tag normalisation *)

STOP_WORDS == {
    <<"i">>, <<"m","e">>, <<"m","y">>, <<"w","e">>, <<"o","u","r">>, <<"y","o","u">>,
    <<"y","o","u","r">>, <<"h","e">>, <<"s","h","e">>, <<"i","t">>, <<"t","h","e","y">>,
    <<"t","h","e","m">>, <<"a">>, <<"a","n">>, <<"t","h","e">>, <<"t","h","i","s">>,
    <<"t","h","a","t">>, <<"t","h","e","s","e">>, <<"t","h","o","s","e">>, <<"i","s">>,
    <<"a","m">>, <<"a","r","e">>, <<"w","a","s">>, <<"w","e","r","e">>, <<"b","e">>,
    <<"b","e","e","n">>, <<"b","e","i","n","g">>, <<"h","a","v","e">>, <<"h","a","s">>,
    <<"h","a","d">>, <<"d","o">>, <<"d","o","e","s">>, <<"d","i","d">>, <<"w","i","l","l">>,
    <<"w","o","u","l","d">>, <<"c","o","u","l","d">>, <<"s","h","o","u","l","d">>,
    <<"c","a","n">>, <<"m","a","y">>, <<"m","i","g","h","t">>, <<"m","u","s","t">>,
    <<"s","h","a","l","l">>, <<"a","n","d">>, <<"o","r">>, <<"b","u","t">>, <<"i","f">>,
    <<"t","h","e","n">>, <<"e","l","s","e">>, <<"w","h","e","n">>, <<"w","h","e","r","e">>,
    <<"w","h","y">>, <<"h","o","w">>, <<"a","l","l">>, <<"e","a","c","h">>,
    <<"e","v","e","r","y">>, <<"b","o","t","h">>, <<"f","e","w">>, <<"m","o","r","e">>,
    <<"m","o","s","t">>, <<"s","o","m","e">>, <<"a","n","y">>, <<"n","o">>, <<"n","o","t">>,
    <<"o","n","l","y">>, <<"o","w","n">>, <<"s","a","m","e">>, <<"s","o">>,
    <<"t","h","a","n">>, <<"t","o","o">>, <<"v","e","r","y">>, <<"j","u","s","t">>,
    <<"a","l","s","o">>, <<"n","o","w">>, <<"h","e","r","e">>, <<"t","h","e","r","e">>,
    <<"a","b","o","u","t">>, <<"a","f","t","e","r">>, <<"b","e","f","o","r","e">>, <<"t","o">>,
    <<"f","r","o","m">>, <<"u","p">>, <<"d","o","w","n">>, <<"i","n">>, <<"o","u","t">>,
    <<"o","n">>, <<"o","f","f">>, <<"o","v","e","r">>, <<"u","n","d","e","r">>,
    <<"w","i","t","h">>, <<"w","i","t","h","o","u","t">>, <<"f","o","r">>, <<"o","f">>,
    <<"a","t">>, <<"b","y">>, <<"a","s">>, <<"i","n","t","o">>,
    <<"t","h","r","o","u","g","h">>, <<"l","i","k","e">>, <<"w","a","n","t">>, <<"u","s","e">>,
    <<"u","s","i","n","g">>, <<"u","s","e","d">>, <<"p","r","e","f","e","r">>,
    <<"a","l","w","a","y","s">>, <<"n","e","v","e","r">>
    }

IsKeywordChar(c) ==
    c \in {"a","b","c","d","e","f","g","h","i","j","k","l","m","n","o","p","q",
           "r","s","t","u","v","w","x","y","z","0","1","2","3","4","5","6","7",
           "8","9","-"} \/ IsWs(c)

\* .replace(/[^a-z0-9\s-]/g, " ")
stripNonWord(s) == [i \in 1..Len(s) |-> IF IsKeywordChar(s[i]) THEN s[i] ELSE " "]

\* a filter that lets every word through
anyWord(w) == TRUE

\* .filter(w => w.length > 2 && !STOP_WORDS.has(w))
IsKeyword(w) == Len(w) > 2 /\ w \notin STOP_WORDS

\* the words of a text that can be keywords, in order, repeats kept
keywordWords(text) == SelectSeq(splitWs(stripNonWord(toLowerCase(text))), IsKeyword)

\* freq.get(w): how often w occurs among the words
Freq(words, w) == Cardinality({i \in 1..Len(words) : words[i] = w})

RECURSIVE Distinct(_)
\* the keys of the frequency map, in insertion order
Distinct(words) ==
    IF words = <<>> THEN <<>>
    ELSE LET rest == Distinct(SubSeq(words, 1, Len(words) - 1))
             w == words[Len(words)]
         IN IF w \in Range(rest) THEN rest ELSE Append(rest, w)

RECURSIVE SortByFreq(_, _)
\* the stable sort (a, b) => b[1] - a[1]: by descending frequency, equal
\* frequencies in first-seen order
SortByFreq(keys, words) ==
    IF keys = <<>> THEN <<>>
    ELSE LET best == CHOOSE i \in 1..Len(keys) :
                        /\ \A j \in 1..Len(keys) :
                              Freq(words, keys[j]) <= Freq(words, keys[i])
                        /\ \A j \in 1..(i - 1) :
                              Freq(words, keys[j]) < Freq(words, keys[i])
             rest == [j \in 1..(Len(keys) - 1) |->
                         IF j < best THEN keys[j] ELSE keys[j + 1]]
         IN <<keys[best]>> \o SortByFreq(rest, words)

MAX_KEYWORDS == 10

extractKeywords(text) ==
    LET words == keywordWords(text)
        sorted == SortByFreq(Distinct(words), words)
    IN SubSeq(sorted, 1, IF Len(sorted) < MAX_KEYWORDS THEN Len(sorted) ELSE MAX_KEYWORDS)

RECURSIVE normalizeTags(_)
\* trimmed, lower-cased, empty ones dropped, first occurrence kept
normalizeTags(tags) ==
    IF tags = <<>> THEN <<>>
    ELSE LET rest == normalizeTags(SubSeq(tags, 1, Len(tags) - 1))
             cleaned == toLowerCase(trim(tags[Len(tags)]))
         IN IF cleaned = <<>> \/ cleaned \in Range(rest) THEN rest
            ELSE Append(rest, cleaned)

----------------------------------------------------------------------------
(* Timestamps and ids *)

ISO_YEAR == <<"2","0","2","4">>
ISO_MIDNIGHT == <<"T","0","0",":","0","0",":","0","0",".","0","0","0","Z">>

\* JSON null
Null == -1

Digit(n) == <<"0","1","2","3","4","5","6","7","8","9","a","b","c","d","e","f">>[n + 1]

TwoDigits(n) == <<Digit(n \div 10), Digit(n % 10)>>

\* the lengths of the months of 2024, the year the model's day 0 starts
MonthDays == <<31, 29, 31, 30, 31, 30, 31, 31, 30, 31, 30, 31>>

RECURSIVE MonthOf(_, _)
\* <<month, day of month>> of the day d (from 0) counted from month m
MonthOf(d, m) ==
    IF m >= 12 \/ d < MonthDays[m] THEN <<m, d + 1>> ELSE MonthOf(d - MonthDays[m], m + 1)

\* new Date(t).toISOString() of midnight of day t: "2024-MM-DDT00:00:00.000Z"
toISOString(t) ==
    LET md == MonthOf(IF t < 0 THEN 0 ELSE t, 1)
    IN  ISO_YEAR \o <<"-">> \o TwoDigits(md[1]) \o <<"-">> \o TwoDigits(md[2])
        \o ISO_MIDNIGHT

\* .replace(/[:.]/g, "").replace(/-/g, "")
stripIsoPunctuation(s) == SelectSeq(s, LAMBDA c : c \notin {":", ".", "-"})

\* crypto.randomBytes(3).toString("hex") of the number rnd
RECURSIVE hexDigits(_, _)
hexDigits(rnd, n) ==
    IF n = 0 THEN <<>> ELSE Append(hexDigits(rnd \div 16, n - 1), Digit(rnd % 16))

ID_HEX_DIGITS == 6

\* `m_${ts}_${rand}`
makeId(now, rnd) ==
    <<"m", "_">> \o stripIsoPunctuation(toISOString(now)) \o <<"_">>
    \o hexDigits(rnd, ID_HEX_DIGITS)

----------------------------------------------------------------------------
(* Records and the in-memory part of the mutations *)

\* the record addMemory builds from trimmed text t and normalised tags
newRecord(t, tags, now, rnd) ==
    [id |-> makeId(now, rnd), text |-> t, tags |-> tags,
     keywords |-> extractKeywords(t),
     createdAt |-> now, updatedAt |-> now, deletedAt |-> Null]

\* a record that always counts as not deleted
alwaysActive(r) == TRUE

\* !r.deletedAt
IsActive(r) == r.deletedAt = Null

\* records.findIndex((r) => r.id === id); 0 stands for -1
findIndex(records, id) ==
    IF \E i \in 1..Len(records) : records[i].id = id
    THEN CHOOSE i \in 1..Len(records) :
            /\ records[i].id = id
            /\ \A j \in 1..(i - 1) : records[j].id # id
    ELSE 0

\* a stamp that also drops the record's tags
stampAndClear(records, idx, now) ==
    [records EXCEPT ![idx] = [@ EXCEPT !.deletedAt = now, !.updatedAt = now,
                                       !.tags = <<>>]]

\* the collection softDeleteById writes: record idx stamped deleted now
stampDeleted(records, idx, now) ==
    [records EXCEPT ![idx] = [@ EXCEPT !.deletedAt = now, !.updatedAt = now]]

\* an optional string argument after ?.trim(): <<>> when absent, else <<s>>
trimOpt(arg) == IF arg = <<>> THEN <<>> ELSE <<trim(arg[1])>>

\* truthiness of an optional string: present and not empty
Truthy(opt) == opt # <<>> /\ opt[1] # <<>>

\* purge's predicate for the criteria, id before tag before match; the
\* criteria check has made sure that match is there when id and tag are not
purgePredicate(id, tag, match, r) ==
    IF Truthy(id) THEN r.id = id[1]
    ELSE IF Truthy(tag)
         THEN \E i \in 1..Len(r.tags) : toLowerCase(r.tags[i]) = tag[1]
         ELSE /\ match # <<>>
              /\ includes(toLowerCase(r.text), toLowerCase(match[1]))

\* a selection that takes every record
purgeEverything(records, id, tag, match) == records

\* records.filter(predicate)
purgeMatches(records, id, tag, match) ==
    SelectSeq(records, LAMBDA r : purgePredicate(id, tag, match, r))

\* a purge that takes out only the matching records that are tombstoned
purgeTombstonedOnly(recs, id, tag, match) ==
    SelectSeq(recs, LAMBDA r : ~purgePredicate(id, tag, match, r) \/ r.deletedAt = Null)

\* records.filter((r) => !predicate(r))
purgeKept(records, id, tag, match) ==
    SelectSeq(records, LAMBDA r : ~purgePredicate(id, tag, match, r))

\* .map((r) => r.id)
idsOf(records) == [i \in 1..Len(records) |-> records[i].id]

\* computeStats
computeStats(records) ==
    LET deleted == Cardinality({i \in 1..Len(records) : ~IsActive(records[i])})
        allTags == UNION {Range(records[i].tags) : i \in 1..Len(records)}
    IN [total |-> Len(records), active |-> Len(records) - deleted,
        deleted |-> deleted,
        tags |-> [t \in allTags |->
                    Cardinality({i \in 1..Len(records) : t \in Range(records[i].tags)})]]

----------------------------------------------------------------------------
(* Scoring, search and compression.  A score is kept as 30 times the      *)
(* code's number, so that days / 30 stays a whole number.                 *)

SCORE_SCALE == 30
TEXT_HIT_POINTS == 5
TAG_POINTS == 8
KEYWORD_POINTS == 6
RECENCY_MAX == 5

Min(a, b) == IF a < b THEN a ELSE b
Max(a, b) == IF a > b THEN a ELSE b

\* what a token adds when tags are not looked at
tokenPointsUntagged(r, tok) ==
    matchCount(tok, toLowerCase(r.text)) * TEXT_HIT_POINTS
    + (IF \E i \in 1..Len(r.keywords) : r.keywords[i] = tok THEN KEYWORD_POINTS ELSE 0)

\* what one query token adds
tokenPoints(r, tok) ==
    matchCount(tok, toLowerCase(r.text)) * TEXT_HIT_POINTS
    + (IF \E i \in 1..Len(r.tags) : toLowerCase(r.tags[i]) = tok THEN TAG_POINTS ELSE 0)
    + (IF \E i \in 1..Len(r.keywords) : r.keywords[i] = tok THEN KEYWORD_POINTS ELSE 0)

RECURSIVE SumPoints(_, _)
SumPoints(r, tokens) ==
    IF tokens = <<>> THEN 0
    ELSE tokenPoints(r, Head(tokens)) + SumPoints(r, Tail(tokens))

\* Math.max(0, 5 - Math.min(5, days / 30)), times 30
recency(r, now) ==
    LET days == now - (IF r.updatedAt # Null THEN r.updatedAt ELSE r.createdAt)
    IN Max(0, RECENCY_MAX * SCORE_SCALE - Min(RECENCY_MAX * SCORE_SCALE, days))

\* the tokens of a query, each taken once
distinctTokens(q) == Distinct(SelectSeq(splitWs(q), LAMBDA w : w # <<>>))

\* q.split(/\s+/).filter(Boolean)
queryTokens(q) == SelectSeq(splitWs(q), LAMBDA w : w # <<>>)

\* a score without the test for an empty query
scoreAnyQuery(r, query, now) ==
    SumPoints(r, queryTokens(toLowerCase(trim(query)))) * SCORE_SCALE + recency(r, now)

\* scoreRecord: 0 for an empty query, else the tokens' points and recency
scoreRecord(r, query, now) ==
    LET q == toLowerCase(trim(query))
    IN IF q = <<>> THEN 0
       ELSE SumPoints(r, queryTokens(q)) * SCORE_SCALE + recency(r, now)

\* the hit search pushes for record r
hitOf(r, query, now) ==
    [id |-> r.id, text |-> r.text, tags |-> r.tags, keywords |-> r.keywords,
     createdAt |-> r.createdAt, updatedAt |-> r.updatedAt,
     score |-> scoreRecord(r, query, now)]

\* a search that does not skip the records with deletedAt set
isHitAlsoDeleted(r, query, now) == scoreRecord(r, query, now) > 0

\* whether search keeps record r
isHit(r, query, now) == IsActive(r) /\ scoreRecord(r, query, now) > 0

\* the hits left in the order of the collection
unsorted(hits) == hits

RECURSIVE sortTiesReversed(_)
\* a sort that puts the later of two hits of equal score first
sortTiesReversed(hits) ==
    IF hits = <<>> THEN <<>>
    ELSE LET best == CHOOSE i \in 1..Len(hits) :
                        /\ \A j \in 1..Len(hits) : hits[j].score <= hits[i].score
                        /\ \A j \in (i + 1)..Len(hits) : hits[j].score < hits[i].score
             rest == [j \in 1..(Len(hits) - 1) |->
                         IF j < best THEN hits[j] ELSE hits[j + 1]]
         IN <<hits[best]>> \o sortTiesReversed(rest)

RECURSIVE sortByScore(_)
\* hits.sort((a, b) => b.score - a.score): stable, highest score first
sortByScore(hits) ==
    IF hits = <<>> THEN <<>>
    ELSE LET best == CHOOSE i \in 1..Len(hits) :
                        /\ \A j \in 1..Len(hits) : hits[j].score <= hits[i].score
                        /\ \A j \in 1..(i - 1) : hits[j].score < hits[i].score
             rest == [j \in 1..(Len(hits) - 1) |->
                         IF j < best THEN hits[j] ELSE hits[j + 1]]
         IN <<hits[best]>> \o sortByScore(rest)

search(records, query, limit, now) ==
    LET kept == SelectSeq(records, LAMBDA r : isHit(r, query, now))
        hits == sortByScore([i \in 1..Len(kept) |-> hitOf(kept[i], query, now)])
    IN SubSeq(hits, 1, Min(Len(hits), Max(1, limit)))

MIN_BUDGET == 200

TITLE_LINE == <<"#"," ","C","o","p","i","l","o","t"," ","C","o","n","t","e","x","t"," ","(","a","u","t","o",")">>
SECTION_LINE == <<"#","#"," ","R","e","l","e","v","a","n","t"," ","m","e","m","o","r","y">>

\* ` [${h.tags.join(", ")}]` or nothing
tagStr(h) ==
    IF h.tags = <<>> THEN <<>>
    ELSE <<" ", "[">> \o Join(h.tags, <<",", " ">>) \o <<"]">>

\* `- (${h.id})${tagStr} ${h.text}`
hitLine(h) == <<"-", " ", "(">> \o h.id \o <<")">> \o tagStr(h) \o <<" ">> \o h.text

\* the lines of the untruncated rendering
renderLines(hits) ==
    <<TITLE_LINE, <<>>, SECTION_LINE>> \o [i \in 1..Len(hits) |-> hitLine(hits[i])]

\* a loop that never breaks
takeAll(lines, size, budget) == lines

RECURSIVE takeCut(_, _, _)
\* a loop that fills the budget with the start of the line that does not fit
takeCut(lines, size, budget) ==
    IF lines = <<>> THEN <<>>
    ELSE IF size + Len(Head(lines)) + 1 > budget
         THEN <<SubSeq(Head(lines), 1, budget - size - 1)>>
    ELSE <<Head(lines)>> \o takeCut(Tail(lines), size + Len(Head(lines)) + 1, budget)

RECURSIVE takeLines(_, _, _)
\* the loop that adds whole lines while size + line.length + 1 <= budget
takeLines(lines, size, budget) ==
    IF lines = <<>> THEN <<>>
    ELSE IF size + Len(Head(lines)) + 1 > budget THEN <<>>
    ELSE <<Head(lines)>> \o takeLines(Tail(lines), size + Len(Head(lines)) + 1, budget)

\* a compression that reports as included only the hits whose lines it kept
compressShownOnly(recs, query, budgetArg, limitArg, t) ==
    LET budget == Max(MIN_BUDGET, budgetArg)
        hits == search(recs, query, Max(1, limitArg), t)
        kept == takeLines(renderLines(hits), 0, budget)
        md == Join(kept, <<"\n">>) \o <<"\n">>
    IN [markdown |-> md, included |-> SubSeq(hits, 1, Max(0, Len(kept) - 3)),
        budget |-> budget, used |-> Len(md)]

compressDeterministic(records, query, budgetArg, limitArg, now) ==
    LET budget == Max(MIN_BUDGET, budgetArg)
        limit == Max(1, limitArg)
        hits == search(records, query, limit, now)
        lines == renderLines(hits)
        md == Join(lines, <<"\n">>) \o <<"\n">>
        md2 == Join(takeLines(lines, 0, budget), <<"\n">>) \o <<"\n">>
    IN IF Len(md) <= budget
       THEN [markdown |-> md, included |-> hits, budget |-> budget, used |-> Len(md)]
       ELSE [markdown |-> md2, included |-> hits, budget |-> budget, used |-> Len(md2)]

----------------------------------------------------------------------------
(* Files.  A file is absent or holds a sequence of JSON tokens: "[", "]",  *)
(* ",", a line break, or one record's object.                              *)

Absent == [exists |-> FALSE, data |-> <<>>]

File(data) == [exists |-> TRUE, data |-> data]

OPEN == [tok |-> "[", rec |-> <<>>]
CLOSE == [tok |-> "]", rec |-> <<>>]
COMMA == [tok |-> ",", rec |-> <<>>]
NEWLINE == [tok |-> "\n", rec |-> <<>>]

\* the JSON object of one record
Obj(r) == [tok |-> "{}", rec |-> <<r>>]

\* a JSON document that is not an array: an object with no record fields
NOT_ARRAY == <<[tok |-> "{}", rec |-> <<>>], NEWLINE>>

RECURSIVE Elements(_)
\* the elements of an array, separated by commas
Elements(records) ==
    IF records = <<>> THEN <<>>
    ELSE IF Len(records) = 1 THEN <<Obj(records[1])>>
    ELSE <<Obj(records[1]), COMMA>> \o Elements(Tail(records))

\* JSON.stringify(data, null, 2) + "\n"
stringify(records) == <<OPEN>> \o Elements(records) \o <<CLOSE, NEWLINE>>

RECURSIVE trimTokens(_)
\* .trim() on a file's text: line breaks at both ends dropped
trimTokens(data) ==
    IF data = <<>> THEN <<>>
    ELSE IF Head(data) = NEWLINE THEN trimTokens(Tail(data))
    ELSE IF data[Len(data)] = NEWLINE THEN trimTokens(SubSeq(data, 1, Len(data) - 1))
    ELSE data

\* whether the tokens between "[" and "]" are objects separated by commas
IsElementList(inner) ==
    \/ inner = <<>>
    \/ /\ Len(inner) % 2 = 1
       /\ \A i \in 1..Len(inner) :
             IF i % 2 = 1 THEN inner[i].tok = "{}" ELSE inner[i] = COMMA

\* whether JSON.parse accepts the text as an array
IsArrayText(raw) ==
    /\ Len(raw) >= 2
    /\ raw[1] = OPEN
    /\ raw[Len(raw)] = CLOSE
    /\ IsElementList(SubSeq(raw, 2, Len(raw) - 1))

\* whether JSON.parse accepts the text at all: an array or one object
IsJsonText(raw) == IsArrayText(raw) \/ (Len(raw) = 1 /\ raw[1].tok = "{}")

\* a reader that gives every record it reads a deletedAt of null
parseElementsRevived(raw) ==
    LET objs == SelectSeq(SubSeq(raw, 2, Len(raw) - 1), LAMBDA t : t.tok = "{}")
    IN [i \in 1..Len(objs) |-> [objs[i].rec[1] EXCEPT !.deletedAt = Null]]

\* the records of an array text, each object read back into a record
parseElements(raw) ==
    LET objs == SelectSeq(SubSeq(raw, 2, Len(raw) - 1), LAMBDA t : t.tok = "{}")
    IN [i \in 1..Len(objs) |-> objs[i].rec[1]]

\* a read that takes whatever is not a JSON array for an empty store
readForgiving(file) ==
    IF file.exists /\ IsJsonText(trimTokens(file.data))
                   /\ IsArrayText(trimTokens(file.data))
    THEN [error |-> "none", records |-> parseElements(trimTokens(file.data))]
    ELSE [error |-> "none", records |-> <<>>]

\* readJsonArray: the records, or the error it throws
readJsonArray(file) ==
    IF ~file.exists THEN [error |-> "none", records |-> <<>>]
    ELSE LET raw == trimTokens(file.data)
         IN IF raw = <<>> THEN [error |-> "none", records |-> <<>>]
            ELSE IF ~IsJsonText(raw) THEN [error |-> "SyntaxError", records |-> <<>>]
            ELSE IF ~IsArrayText(raw) THEN [error |-> "MalformedStore", records |-> <<>>]
            ELSE [error |-> "none", records |-> parseElements(raw)]

----------------------------------------------------------------------------
(* The processes that use one store file and one lock marker *)

NumProcs == 2
MaxCalls == 2
MaxNow == 1
MaxRand == 1
MaxFaults == 1
LockTimeoutMs == 60

SLEEP_MIN_MS == 50
SLEEP_SPAN_MS == 50

Procs == 1..NumProcs

\* 50 + Math.floor(Math.random() * 50): the shortest and the longest sleep
SleepChoices == {SLEEP_MIN_MS, SLEEP_MIN_MS + SLEEP_SPAN_MS - 1}

TEXT_DARK == <<"D","a","r","k">>
TEXT_BLANK == <<" ", " ">>
TAG_TMP_RAW == <<" ","T","m","p">>
TAG_TMP == <<"t","m","p">>
QUERY_DARK == <<"d","a","r","k">>
NO_SUCH_ID == <<"m","_","0">>
DEFAULT_SEARCH_LIMIT == 10
DEFAULT_COMPRESS_LIMIT == 25
DEFAULT_BUDGET == 1200

VARIABLES
    store,      \* the store file
    lock,       \* the lock-marker file
    tmp,        \* tmp[p]: the temporary file of p's atomicWrite
    now,        \* the clock
    pc,         \* pc[p]: where process p is in its call
    call,       \* call[p]: the call in progress or last made, with its arguments
    elapsed,    \* elapsed[p]: Date.now() - start in p's acquireLock
    records,    \* records[p]: the collection p read
    pending,    \* pending[p]: the collection p is writing
    ret,        \* ret[p]: what the call returns or throws
    calls,      \* the number of calls issued
    faults,     \* the number of crashes and failed writes so far
    creator,    \* who created the lock marker that exists (0: nobody)
    acquired,   \* acquired[p]: acquireLock returned in p's call
    before,     \* before[p]: the store file when p created the marker
    serial,     \* the committed mutations applied one after the other
    loaded,     \* loaded[p]: the collection p's last loadStore returned
    alive,      \* alive[p]: the process has not crashed
    asked,      \* the arguments of a call of search, compress or export
    answer      \* what that call returned

vars == <<store, lock, tmp, now, pc, call, elapsed, records, pending, ret,
          calls, faults, creator, acquired, before, serial, loaded, alive,
          asked, answer>>

NoCall == [op |-> "none", text |-> <<>>, tags |-> <<>>, id |-> <<>>,
           tag |-> <<>>, match |-> <<>>, dryRun |-> FALSE]

NoRet == [status |-> "none", found |-> FALSE, ids |-> <<>>, out |-> <<>>]

Ok(found, ids, out) == [status |-> "ok", found |-> found, ids |-> ids, out |-> out]

Thrown(error) == [status |-> error, found |-> FALSE, ids |-> <<>>, out |-> <<>>]

MutatingOps == {"add", "softDelete", "purge"}
ReadOps == {"load", "search", "compress", "export", "stats"}

\* the ids a caller can have seen: those in the store file
KnownIds == Range(idsOf(readJsonArray(store).records))

AddCalls ==
    {[NoCall EXCEPT !.op = "add", !.text = t[1], !.tags = t[2]] :
        t \in {<<TEXT_DARK, <<>> >>, <<TEXT_DARK, <<TAG_TMP_RAW>> >>, <<TEXT_BLANK, <<>> >>}}

SoftDeleteCalls ==
    {[NoCall EXCEPT !.op = "softDelete", !.id = <<i>>] : i \in KnownIds \cup {NO_SUCH_ID}}

PurgeCalls ==
    {[NoCall EXCEPT !.op = "purge", !.id = <<i>>] : i \in KnownIds}
    \cup {[NoCall EXCEPT !.op = "purge", !.tag = <<TAG_TMP_RAW>>, !.dryRun = d] :
            d \in BOOLEAN}
    \cup {[NoCall EXCEPT !.op = "purge", !.match = <<TEXT_BLANK>>],
          [NoCall EXCEPT !.op = "purge"]}

ReadCalls == {[NoCall EXCEPT !.op = o] : o \in ReadOps}

\* a store two earlier calls left: a tagged record, soft-deleted on day 0
PRELOADED == stampDeleted(<<newRecord(TEXT_DARK, <<TAG_TMP>>, 0, 0)>>, 1, 0)

\* no call of the in-memory functions is followed
NotAsked == [records |-> <<>>, query |-> <<>>, limit |-> 0, budget |-> 0, now |-> 0]

NoAnswer == [op |-> "none", hits |-> <<>>, markdown |-> <<>>, text |-> <<>>, used |-> 0]

\* the processes before their first call, with the store file as given
Start(file) ==
    /\ store = file
    /\ lock = Absent
    /\ tmp = [p \in Procs |-> Absent]
    /\ now = 0
    /\ pc = [p \in Procs |-> "idle"]
    /\ call = [p \in Procs |-> NoCall]
    /\ elapsed = [p \in Procs |-> 0]
    /\ records = [p \in Procs |-> <<>>]
    /\ pending = [p \in Procs |-> <<>>]
    /\ ret = [p \in Procs |-> NoRet]
    /\ calls = 0
    /\ faults = 0
    /\ creator = 0
    /\ acquired = [p \in Procs |-> FALSE]
    /\ before = [p \in Procs |-> Absent]
    /\ serial = readJsonArray(store).records
    /\ loaded = [p \in Procs |-> <<>>]
    /\ alive = [p \in Procs |-> TRUE]

Init ==
    /\ \E file \in {Absent, File(NOT_ARRAY), File(stringify(PRELOADED))} : Start(file)
    /\ asked = NotAsked
    /\ answer = NoAnswer

----------------------------------------------------------------------------
(* The steps of a call *)

\* a create that is not exclusive, fs.openSync(lockPath, "w"), always succeeds
openAlways(marker) == TRUE

\* fs.openSync(lockPath, "wx") succeeds only when the marker is absent
openExclusive(marker) == ~marker.exists

\* an acquireLock without the timeout test
neverTimedOut(waited) == FALSE

\* Date.now() - start > timeoutMs
timedOut(waited) == waited > LockTimeoutMs

\* a write that goes to the store file itself
writeInPlace == "store"

\* the file atomicWrite's writeFileSync writes: the temporary one
writePath == "tmp"

\* a release that is skipped when the call throws
releaseOnSuccess(marker, outcome) == IF outcome.status = "ok" THEN Absent ELSE marker

\* the marker after the finally block ran: unlinked, whatever was returned
\* or thrown
releaseLock(marker, outcome) == Absent

\* a mutation that works on the collection the process loaded earlier
recordsFromCache(p, fresh) == loaded[p]

\* the collection a mutation works on: the one just read, under the lock
recordsUnderLock(p, fresh) == fresh

\* an acquireLock awaited inside the try block: the finally block unlinks
\* the marker when the timeout is thrown
markerUnlinkedOnTimeout(marker) == Absent

\* the marker after acquireLock threw its timeout: acquireLock is awaited
\* before the try block, so no finally block runs and nothing is unlinked
markerAfterTimeout(marker) == marker

\* a throw that is caught and followed by the write all the same
throwGoesOnToWrite == "tmpOpen"

\* where a throw inside the try block leads: straight to the finally block
throwGoesTo == "release"

\* purge's criteria as it computes them from its arguments
purgeId(c) == trimOpt(c.id)
purgeMatch(c) == trimOpt(c.match)
purgeTag(c) == IF c.tag = <<>> THEN <<>> ELSE <<toLowerCase(trim(c.tag[1]))>>

\* a criteria check that lets every call through
alwaysCriteria(c) == FALSE

\* !id && !match && !tag
noCriteria(c) == ~Truthy(purgeId(c)) /\ ~Truthy(purgeMatch(c)) /\ ~Truthy(purgeTag(c))

\* the call's local variables go out of scope
Forget(p) ==
    /\ records' = [records EXCEPT ![p] = <<>>]
    /\ pending' = [pending EXCEPT ![p] = <<>>]
    /\ before' = [before EXCEPT ![p] = Absent]

\* a new call starts
Fresh(p) ==
    /\ Forget(p)
    /\ elapsed' = [elapsed EXCEPT ![p] = 0]
    /\ acquired' = [acquired EXCEPT ![p] = FALSE]
    /\ calls' = calls + 1

\* addMemory, softDeleteById or purge is called and goes for the lock
CallMutation(p) ==
    /\ pc[p] = "idle"
    /\ alive[p]
    /\ calls < MaxCalls
    /\ \E c \in AddCalls \cup SoftDeleteCalls \cup PurgeCalls :
          /\ ~(c.op = "purge" /\ noCriteria(c))
          /\ call' = [call EXCEPT ![p] = c]
    /\ pc' = [pc EXCEPT ![p] = "acquire"]
    /\ ret' = [ret EXCEPT ![p] = NoRet]
    /\ Fresh(p)
    /\ UNCHANGED <<store, lock, tmp, now, faults, creator, serial, loaded, alive, asked, answer>>

\* purge is called without a criterion and throws before it asks for the lock
CallPurgeInvalid(p) ==
    /\ pc[p] = "idle"
    /\ alive[p]
    /\ calls < MaxCalls
    /\ \E c \in PurgeCalls :
          /\ noCriteria(c)
          /\ call' = [call EXCEPT ![p] = c]
    /\ ret' = [ret EXCEPT ![p] = Thrown("InvalidCriteria")]
    /\ Fresh(p)
    /\ UNCHANGED <<store, lock, tmp, now, pc, faults, creator, serial, loaded, alive,
                   asked, answer>>

\* a loadStore that asks for the lock marker first
readLocked == "acquire"

\* loadStore goes straight to readJsonArray
readEntry == "exists"

\* a caller starts loadStore, to search, compress, export or count
CallRead(p) ==
    /\ pc[p] = "idle"
    /\ alive[p]
    /\ calls < MaxCalls
    /\ \E c \in ReadCalls : call' = [call EXCEPT ![p] = c]
    /\ pc' = [pc EXCEPT ![p] = readEntry]
    /\ ret' = [ret EXCEPT ![p] = NoRet]
    /\ Fresh(p)
    /\ UNCHANGED <<store, lock, tmp, now, faults, creator, serial, loaded, alive, asked, answer>>

\* acquireLock: the exclusive create succeeds
AcquireLock(p) ==
    /\ pc[p] = "acquire"
    /\ alive[p]
    /\ openExclusive(lock)
    /\ lock' = File(<<>>)
    /\ creator' = p
    /\ before' = [before EXCEPT ![p] = store]
    /\ pc' = [pc EXCEPT ![p] = "lockWrite"]
    /\ UNCHANGED <<store, tmp, now, call, elapsed, records, pending, ret, calls,
                   faults, acquired, serial, loaded, alive, asked, answer>>

\* acquireLock: EEXIST before the timeout, sleep and try again
LockBusy(p) ==
    /\ pc[p] = "acquire"
    /\ alive[p]
    /\ ~openExclusive(lock)
    /\ ~timedOut(elapsed[p])
    /\ \E d \in SleepChoices :
          elapsed' = [elapsed EXCEPT ![p] =
                         Min(elapsed[p] + d, LockTimeoutMs + SLEEP_MIN_MS + SLEEP_SPAN_MS)]
    /\ UNCHANGED <<store, lock, tmp, now, pc, call, records, pending, ret, calls,
                   faults, creator, acquired, before, serial, loaded, alive,
                   asked, answer>>

\* acquireLock: EEXIST after the timeout, the call throws
LockTimeout(p) ==
    /\ pc[p] = "acquire"
    /\ alive[p]
    /\ ~openExclusive(lock)
    /\ timedOut(elapsed[p])
    /\ lock' = markerAfterTimeout(lock)
    /\ creator' = IF lock'.exists THEN creator ELSE 0
    /\ pc' = [pc EXCEPT ![p] = "idle"]
    /\ ret' = [ret EXCEPT ![p] = Thrown("LockTimeout")]
    /\ Forget(p)
    /\ UNCHANGED <<store, tmp, now, call, elapsed, calls, faults, acquired, serial,
                   loaded, alive, asked, answer>>

\* acquireLock: the pid is written into the marker and acquireLock returns
LockWrite(p) ==
    /\ pc[p] = "lockWrite"
    /\ alive[p]
    /\ lock' = File(<<p>>)
    /\ acquired' = [acquired EXCEPT ![p] = TRUE]
    /\ pc' = [pc EXCEPT ![p] = "exists"]
    /\ UNCHANGED <<store, tmp, now, call, elapsed, records, pending, ret, calls,
                   faults, creator, before, serial, loaded, alive,
                   asked, answer>>

\* acquireLock: writing the pid fails; the error is not EEXIST and is rethrown
LockWriteFail(p) ==
    /\ pc[p] = "lockWrite"
    /\ alive[p]
    /\ faults < MaxFaults
    /\ faults' = faults + 1
    /\ pc' = [pc EXCEPT ![p] = "idle"]
    /\ ret' = [ret EXCEPT ![p] = Thrown("WriteError")]
    /\ Forget(p)
    /\ UNCHANGED <<store, lock, tmp, now, call, elapsed, calls, creator, acquired,
                   serial, loaded, alive, asked, answer>>

\* what a read call prints from the loaded records
readOutput(c, recs, t) ==
    CASE c.op = "search" -> search(recs, QUERY_DARK, DEFAULT_SEARCH_LIMIT, t)
      [] c.op = "compress" ->
            compressDeterministic(recs, QUERY_DARK, DEFAULT_BUDGET,
                                  DEFAULT_COMPRESS_LIMIT, t)
      [] c.op = "export" -> stringify(recs)
      [] c.op = "stats" -> computeStats(recs)
      [] OTHER -> <<>>

\* the rest of the synchronous block once readJsonArray gave rd
AfterRead(p, rd) ==
    LET c == call[p]
        recs == IF c.op \in ReadOps THEN rd.records
                ELSE recordsUnderLock(p, rd.records)
    IN
    IF c.op \in ReadOps
    THEN /\ pc' = [pc EXCEPT ![p] = "idle"]
         /\ loaded' = [loaded EXCEPT ![p] = IF rd.error = "none" THEN recs ELSE @]
         /\ ret' = [ret EXCEPT ![p] =
                       IF rd.error = "none" THEN Ok(FALSE, <<>>, readOutput(c, recs, now))
                       ELSE Thrown(rd.error)]
         /\ UNCHANGED <<records, pending>>
    ELSE
    /\ loaded' = loaded
    /\ records' = [records EXCEPT ![p] = recs]
    /\ IF rd.error # "none"
       THEN /\ ret' = [ret EXCEPT ![p] = Thrown(rd.error)]
            /\ pc' = [pc EXCEPT ![p] = throwGoesTo]
            /\ UNCHANGED pending
       ELSE
       CASE c.op = "add" ->
              IF trim(c.text) = <<>>
              THEN /\ ret' = [ret EXCEPT ![p] = Thrown("EmptyMemory")]
                   /\ pc' = [pc EXCEPT ![p] = throwGoesTo]
                   /\ UNCHANGED pending
              ELSE \E rnd \in 0..MaxRand :
                     LET rec == newRecord(trim(c.text), normalizeTags(c.tags), now, rnd)
                     IN /\ pending' = [pending EXCEPT ![p] = Append(recs, rec)]
                        /\ ret' = [ret EXCEPT ![p] = Ok(FALSE, <<>>, <<rec>>)]
                        /\ pc' = [pc EXCEPT ![p] = "tmpOpen"]
         [] c.op = "softDelete" ->
              LET idx == findIndex(recs, c.id[1])
              IN IF idx = 0
                 THEN /\ ret' = [ret EXCEPT ![p] = Ok(FALSE, <<>>, <<>>)]
                      /\ pc' = [pc EXCEPT ![p] = "release"]
                      /\ UNCHANGED pending
                 ELSE IF IsActive(recs[idx])
                 THEN LET stamped == stampDeleted(recs, idx, now)
                      IN /\ pending' = [pending EXCEPT ![p] = stamped]
                         /\ ret' = [ret EXCEPT ![p] = Ok(TRUE, <<>>, <<stamped[idx]>>)]
                         /\ pc' = [pc EXCEPT ![p] = "tmpOpen"]
                 ELSE /\ ret' = [ret EXCEPT ![p] = Ok(TRUE, <<>>, <<recs[idx]>>)]
                      /\ pc' = [pc EXCEPT ![p] = "release"]
                      /\ UNCHANGED pending
         [] c.op = "purge" ->
              LET ids == idsOf(purgeMatches(recs, purgeId(c), purgeTag(c), purgeMatch(c)))
              IN /\ ret' = [ret EXCEPT ![p] = Ok(FALSE, ids, <<>>)]
                 /\ IF c.dryRun
                    THEN /\ pc' = [pc EXCEPT ![p] = "release"]
                         /\ UNCHANGED pending
                    ELSE /\ pending' = [pending EXCEPT ![p] =
                                purgeKept(recs, purgeId(c), purgeTag(c), purgeMatch(c))]
                         /\ pc' = [pc EXCEPT ![p] = "tmpOpen"]

\* readJsonArray: fs.existsSync; no file reads as no records
Exists(p) ==
    /\ pc[p] = "exists"
    /\ alive[p]
    /\ IF store.exists
       THEN /\ pc' = [pc EXCEPT ![p] = "readFile"]
            /\ UNCHANGED <<records, pending, ret, loaded>>
       ELSE AfterRead(p, readJsonArray(Absent))
    /\ UNCHANGED <<store, lock, tmp, now, call, elapsed, calls, faults, creator,
                   acquired, before, serial, alive, asked, answer>>

\* readJsonArray: fs.readFileSync and JSON.parse, then the in-memory work
ReadFile(p) ==
    /\ pc[p] = "readFile"
    /\ alive[p]
    /\ AfterRead(p, readJsonArray(store))
    /\ UNCHANGED <<store, lock, tmp, now, call, elapsed, calls, faults, creator,
                   acquired, before, serial, alive, asked, answer>>

\* how far a write that is under way can have got: nothing but "[", all but
\* the final line break, or all of it
nextLengths(written, total) == {n \in {1, total - 1, total} : n > written}

\* the file atomicWrite is writing
Target(p) == IF writePath = "tmp" THEN tmp[p] ELSE store

SetTarget(p, file) ==
    IF writePath = "tmp"
    THEN tmp' = [tmp EXCEPT ![p] = file] /\ store' = store
    ELSE store' = file /\ tmp' = tmp

\* atomicWrite: writeFileSync opens the file, which is then empty
TmpOpen(p) ==
    /\ pc[p] = "tmpOpen"
    /\ alive[p]
    /\ SetTarget(p, File(<<>>))
    /\ pc' = [pc EXCEPT ![p] = "tmpWrite"]
    /\ UNCHANGED <<lock, now, call, elapsed, records, pending, ret, calls, faults,
                   creator, acquired, before, serial, loaded, alive,
                   asked, answer>>

\* atomicWrite: writeFileSync writes some more of the document
TmpWrite(p) ==
    /\ pc[p] = "tmpWrite"
    /\ alive[p]
    /\ LET data == stringify(pending[p])
       IN \E n \in nextLengths(Len(Target(p).data), Len(data)) :
             /\ SetTarget(p, File(SubSeq(data, 1, n)))
             /\ pc' = [pc EXCEPT ![p] = IF n = Len(data) THEN "rename" ELSE "tmpWrite"]
    /\ UNCHANGED <<lock, now, call, elapsed, records, pending, ret, calls, faults,
                   creator, acquired, before, serial, loaded, alive,
                   asked, answer>>

\* the collection after the mutation c, which returned r, is applied to coll
applyMutation(coll, c, r) ==
    CASE r.status # "ok" -> coll
      [] c.op = "add" -> Append(coll, r.out[1])
      [] c.op = "softDelete" ->
            LET idx == findIndex(coll, c.id[1])
            IN IF idx # 0 /\ IsActive(coll[idx])
               THEN stampDeleted(coll, idx, r.out[1].deletedAt)
               ELSE coll
      [] c.op = "purge" -> purgeKept(coll, purgeId(c), purgeTag(c), purgeMatch(c))
      [] OTHER -> coll

\* atomicWrite: fs.renameSync puts the temporary file in the store's place
Rename(p) ==
    /\ pc[p] = "rename"
    /\ alive[p]
    /\ IF writePath = "tmp"
       THEN store' = tmp[p] /\ tmp' = [tmp EXCEPT ![p] = Absent]
       ELSE UNCHANGED <<store, tmp>>
    /\ serial' = applyMutation(serial, call[p], ret[p])
    /\ pc' = [pc EXCEPT ![p] = "release"]
    /\ UNCHANGED <<lock, now, call, elapsed, records, pending, ret, calls, faults,
                   creator, acquired, before, loaded, alive, asked, answer>>

\* atomicWrite throws: the open, a write or the rename fails
WriteFail(p) ==
    /\ pc[p] \in {"tmpOpen", "tmpWrite", "rename"}
    /\ alive[p]
    /\ faults < MaxFaults
    /\ faults' = faults + 1
    /\ ret' = [ret EXCEPT ![p] = Thrown("WriteError")]
    /\ pc' = [pc EXCEPT ![p] = "release"]
    /\ UNCHANGED <<store, lock, tmp, now, call, elapsed, records, pending, calls,
                   creator, acquired, before, serial, loaded, alive,
                   asked, answer>>

\* the finally block: fs.unlinkSync(lockPath), then the call returns or throws
Release(p) ==
    /\ pc[p] = "release"
    /\ alive[p]
    /\ lock' = releaseLock(lock, ret[p])
    /\ creator' = IF lock'.exists THEN creator ELSE 0
    /\ pc' = [pc EXCEPT ![p] = "idle"]
    /\ Forget(p)
    /\ UNCHANGED <<store, tmp, now, call, elapsed, ret, calls, faults, acquired,
                   serial, loaded, alive, asked, answer>>

\* the process stops in the middle of a mutation and never runs again
Crash(p) ==
    /\ pc[p] # "idle"
    /\ alive[p]
    /\ call[p].op \in MutatingOps
    /\ faults < MaxFaults
    /\ faults' = faults + 1
    /\ alive' = [alive EXCEPT ![p] = FALSE]
    /\ UNCHANGED <<store, lock, tmp, now, pc, call, elapsed, records, pending, ret,
                   calls, creator, acquired, before, serial, loaded,
                   asked, answer>>

\* time passes
Tick ==
    /\ now < MaxNow
    /\ now' = now + 1
    /\ UNCHANGED <<store, lock, tmp, pc, call, elapsed, records, pending, ret,
                   calls, faults, creator, acquired, before, serial, loaded,
                   alive, asked, answer>>

\* the steps process p takes by itself once a call is under way
Step(p) ==
    \/ AcquireLock(p)
    \/ LockBusy(p)
    \/ LockTimeout(p)
    \/ LockWrite(p)
    \/ Exists(p)
    \/ ReadFile(p)
    \/ TmpOpen(p)
    \/ TmpWrite(p)
    \/ Rename(p)
    \/ Release(p)

Next ==
    \/ \E p \in Procs : CallMutation(p)
    \/ \E p \in Procs : CallPurgeInvalid(p)
    \/ \E p \in Procs : CallRead(p)
    \/ \E p \in Procs : Step(p)
    \/ \E p \in Procs : LockWriteFail(p)
    \/ \E p \in Procs : WriteFail(p)
    \/ \E p \in Procs : Crash(p)
    \/ Tick

Spec == Init /\ [][Next]_vars

\* a step of acquireLock in a mutating call
LockStep(p) == AcquireLock(p) \/ LockBusy(p) \/ LockTimeout(p) \/ LockWrite(p)

\* a mutating call leaves the step of readJsonArray it is at: what Exists(p)
\* and ReadFile(p) do to pc[p], whatever they read
ReadStepTaken(p) ==
    /\ alive[p]
    /\ call[p].op \in MutatingOps
    /\ pc[p] \in {"exists", "readFile"}
    /\ \E to \in {"readFile", "tmpOpen", "release"} : pc' = [pc EXCEPT ![p] = to]

\* a step of atomicWrite or of the finally block
WriteStep(p) == TmpOpen(p) \/ TmpWrite(p) \/ Rename(p) \/ Release(p)

\* a process that is in a mutating call and does not stop keeps taking its
\* steps: the event loop resumes acquireLock after each sleep, and the code
\* from the read to the unlink runs to its end without waiting for anything
FairSpec ==
    /\ Spec
    /\ \A p \in Procs : WF_vars(LockStep(p))
    /\ \A p \in Procs : WF_pc(ReadStepTaken(p))
    /\ \A p \in Procs : WF_vars(WriteStep(p))

----------------------------------------------------------------------------
(* One caller alone, one call after the other, with more kinds of call *)

MaxSoloCalls == 3

\* the one process that calls
Solo == 1

TEXT_LONG ==
    <<"T","h","e"," ","D","A","R","K","!"," ","a","a","a"," ","b","b","b"," ",
      "c","c","c"," ","d","d","d"," ","e","e","e"," ","f","f","f"," ","g","g","g",
      " ","h","h","h"," ","i","i","i"," ","j","j","j"," ","o","k"," ","d","a","r","k">>
TAG_TMP_UPPER == <<"T","M","P"," ">>
MATCH_AR == <<"A","R">>

\* a store file that holds nothing, and one whose text is no JSON at all
EMPTY_TEXT == <<NEWLINE>>
NOT_JSON == <<OPEN, NEWLINE>>

SoloAddCalls ==
    {[NoCall EXCEPT !.op = "add", !.text = t[1], !.tags = t[2]] :
        t \in {<<TEXT_DARK, <<>> >>,
               <<TEXT_LONG, <<TAG_TMP_RAW, TEXT_BLANK, TAG_TMP_UPPER>> >>,
               <<TEXT_BLANK, <<TAG_TMP>> >>}}

SoloPurgeCalls ==
    {[NoCall EXCEPT !.op = "purge", !.id = i, !.tag = t, !.match = s, !.dryRun = d] :
        i \in {<<>>} \cup {<<k>> : k \in KnownIds},
        t \in {<<>>, <<TAG_TMP_RAW>>},
        s \in {<<>>, <<TEXT_BLANK>>, <<MATCH_AR>>},
        d \in BOOLEAN}

SoloCalls ==
    SoloAddCalls \cup SoftDeleteCalls \cup SoloPurgeCalls
    \cup {[NoCall EXCEPT !.op = "load"], [NoCall EXCEPT !.op = "stats"]}

InitSolo ==
    /\ \E file \in {Absent, File(EMPTY_TEXT), File(NOT_ARRAY), File(NOT_JSON),
                    File(stringify(PRELOADED))} : Start(file)
    /\ asked = NotAsked
    /\ answer = NoAnswer

\* the caller makes its next call: purge's criteria check, then acquireLock
\* for a mutation and readJsonArray for loadStore; after the last mutation
\* there can be one more read
SoloCall ==
    /\ pc[Solo] = "idle"
    /\ calls <= MaxSoloCalls
    /\ \E c \in SoloCalls :
          /\ calls = MaxSoloCalls => c.op \in ReadOps
          /\ call' = [call EXCEPT ![Solo] = c]
          /\ IF c.op = "purge" /\ noCriteria(c)
             THEN /\ ret' = [ret EXCEPT ![Solo] = Thrown("InvalidCriteria")]
                  /\ pc' = pc
             ELSE /\ ret' = [ret EXCEPT ![Solo] = NoRet]
                  /\ pc' = [pc EXCEPT ![Solo] =
                               IF c.op \in ReadOps THEN readEntry ELSE "acquire"]
    /\ Fresh(Solo)
    /\ UNCHANGED <<store, lock, tmp, now, faults, creator, serial, loaded, alive,
                   asked, answer>>

\* time passes between two calls
SoloTick == pc[Solo] = "idle" /\ Tick

NextSolo ==
    \/ SoloCall
    \/ AcquireLock(Solo)
    \/ LockWrite(Solo)
    \/ Exists(Solo)
    \/ ReadFile(Solo)
    \/ TmpOpen(Solo)
    \/ TmpWrite(Solo)
    \/ Rename(Solo)
    \/ Release(Solo)
    \/ SoloTick

SoloSpec == InitSolo /\ [][NextSolo]_vars

----------------------------------------------------------------------------
(* search, compressDeterministic and exportJson on collections as given *)

\* JSON.stringify(records, null, 2) + "\n"
exportJson(recs) == stringify(recs)

TEXT_LIGHT == <<"L","i","g","h","t">>
QUERY_TMP == <<"T","M","P">>
QUERY_NONE == <<" ">>
QUERY_OTHER == <<"z">>
QUERY_TWICE == <<"D","a","r","k"," "," ","d","a","r","k">>

\* five records as five calls of addMemory on day 0 left them
ADDED ==
    <<newRecord(TEXT_DARK, <<TAG_TMP>>, 0, 0), newRecord(TEXT_LIGHT, <<>>, 0, 1),
      newRecord(TEXT_DARK, <<>>, 0, 2), newRecord(TEXT_LIGHT, <<TAG_TMP>>, 0, 3),
      newRecord(TEXT_DARK, <<TAG_TMP>>, 0, 4)>>

\* the collection after softDeleteById of the records at the places in gone
softDeleted(recs, gone) ==
    [i \in 1..Len(recs) |-> IF i \in gone THEN stampDeleted(recs, i, 0)[i] ELSE recs[i]]

\* a budget above the floor that the five records do not fit into
TightBudget == 230

\* the day of the call: the day of the adds, or when recency has run out
QueryDays == {0, RECENCY_MAX * SCORE_SCALE}

Questions ==
    [records : {softDeleted(ADDED, gone) : gone \in SUBSET (1..Len(ADDED))},
     query : {QUERY_DARK, QUERY_TMP, QUERY_NONE, QUERY_OTHER, QUERY_TWICE, <<>>},
     limit : {0, 2, DEFAULT_COMPRESS_LIMIT},
     budget : {0, TightBudget, DEFAULT_BUDGET},
     now : QueryDays]

storeVars == <<store, lock, tmp, now, pc, call, elapsed, records, pending, ret,
               calls, faults, creator, acquired, before, serial, loaded, alive>>

InitQuery ==
    /\ Start(Absent)
    /\ asked \in Questions
    /\ answer = NoAnswer

\* search(records, query, limit)
Search ==
    /\ answer.op = "none"
    /\ answer' = [NoAnswer EXCEPT
                     !.op = "search",
                     !.hits = search(asked.records, asked.query, asked.limit, asked.now)]
    /\ UNCHANGED <<storeVars, asked>>

\* compressDeterministic(records, query, {budget, limit})
Compress ==
    /\ answer.op = "none"
    /\ LET c == compressDeterministic(asked.records, asked.query, asked.budget,
                                      asked.limit, asked.now)
       IN answer' = [NoAnswer EXCEPT
                        !.op = "compress", !.hits = c.included, !.markdown = c.markdown,
                        !.used = c.used]
    /\ UNCHANGED <<storeVars, asked>>

\* exportJson(records)
Export ==
    /\ answer.op = "none"
    /\ answer' = [NoAnswer EXCEPT !.op = "export", !.text = exportJson(asked.records)]
    /\ UNCHANGED <<storeVars, asked>>

\* scoreRecord(r, query) for a record of the collection or one with a long
\* text, added on day 0 or a day later (which can be after the day the
\* caller's clock shows), and for the record addMemory would have built had
\* one more tag been given, a token of the query as typed or in lower case
Score ==
    /\ answer.op = "none"
    /\ \E base \in Range(asked.records)
                    \cup {newRecord(TEXT_LONG, <<>>, day, 0) : day \in 0..MaxNow} :
          \E tag \in Range(queryTokens(trim(asked.query)))
                      \cup Range(queryTokens(toLowerCase(trim(asked.query)))) :
              LET tagged == [base EXCEPT !.tags = normalizeTags(Append(@, tag))]
              IN /\ tagged.tags # base.tags
                 /\ answer' = [NoAnswer EXCEPT
                                  !.op = "score",
                                  !.hits = <<hitOf(base, asked.query, asked.now),
                                             hitOf(tagged, asked.query, asked.now)>>]
    /\ UNCHANGED <<storeVars, asked>>

NextQuery == Search \/ Compress \/ Export \/ Score

SpecQuery == InitQuery /\ [][NextQuery]_vars

\* the records of the collection asked about that are tombstoned
Tombstones == {i \in 1..Len(asked.records) : ~IsActive(asked.records[i])}

\* C10: for every query, limit and budget, a record with deletedAt set is
\* among neither the hits of search nor the included hits of
\* compressDeterministic, its id is nowhere in the text compressDeterministic
\* returns, and exportJson's output holds it as long as the collection does
TombstoneExclusion ==
    /\ answer.op \in {"search", "compress"} =>
          \A i \in Tombstones :
              /\ \A j \in 1..Len(answer.hits) : answer.hits[j].id # asked.records[i].id
              /\ ~includes(answer.markdown, asked.records[i].id)
    /\ answer.op = "export" =>
          /\ readJsonArray(File(answer.text)).error = "none"
          /\ readJsonArray(File(answer.text)).records = asked.records

\* compressDeterministic returned hits, cut to the smallest budget, from a
\* collection in which a tombstoned record matches the query as well
TombstoneExclusionWitness ==
    /\ answer.op = "compress"
    /\ Len(answer.hits) >= 2
    /\ asked.budget = 0
    /\ \E i \in Tombstones : scoreRecord(asked.records[i], asked.query, asked.now) > 0
    /\ \E j \in 1..Len(answer.hits) : ~includes(answer.markdown, answer.hits[j].id)

----------------------------------------------------------------------------
(* The lock and the store file under concurrent processes *)

\* p is between its exclusive create of the marker and its unlink of it
HoldsLock(p) ==
    /\ call[p].op \in MutatingOps
    /\ pc[p] \in {"lockWrite", "exists", "readFile", "tmpOpen", "tmpWrite",
                  "rename", "release"}

\* p is reading, modifying or writing the collection
Working(p) ==
    /\ call[p].op \in MutatingOps
    /\ pc[p] \in {"exists", "readFile", "tmpOpen", "tmpWrite", "rename"}

\* the records in the objects of a file, as they are written there
Stored(file) ==
    LET objs == SelectSeq(file.data, LAMBDA t : t.tok = "{}" /\ t.rec # <<>>)
    IN [i \in 1..Len(objs) |-> objs[i].rec[1]]

\* the collection p's mutation found when it took the lock
FoundByCall(p) == readJsonArray(before[p]).records

\* the collection p's mutation has to leave, given what it found
LeftByCall(p) ==
    IF call[p].op = "purge" /\ call[p].dryRun THEN FoundByCall(p)
    ELSE applyMutation(FoundByCall(p), call[p], ret[p])

\* C1: at most one of the processes running add, softDelete or purge is
\* between its successful lock acquisition and its lock release, so the
\* read-modify-write steps of two mutations never interleave
MutualExclusion ==
    \A p \in Procs : \A q \in Procs :
        p # q => ~(HoldsLock(p) /\ HoldsLock(q))

\* one process is writing while the other has tried the marker and sleeps
MutualExclusionWitness ==
    \E p \in Procs : \E q \in Procs :
        /\ alive[p] /\ alive[q]
        /\ HoldsLock(p) /\ pc[p] = "tmpWrite"
        /\ call[q].op \in MutatingOps /\ pc[q] = "acquire" /\ elapsed[q] > 0

\* C2: the store holds the committed mutations applied one after the other,
\* none lost, and each mutation works on the collection that was on disk when
\* it took the lock, never on one read earlier
NoLostUpdate ==
    /\ readJsonArray(store).error = "none" => readJsonArray(store).records = serial
    /\ \A p \in Procs :
          (call[p].op \in MutatingOps /\ pc[p] \in {"tmpOpen", "tmpWrite", "rename"})
              => records[p] = FoundByCall(p)

\* two mutations that overlapped have both completed and both are in the store
NoLostUpdateWitness ==
    \E p \in Procs : \E q \in Procs :
        /\ p # q
        /\ pc[p] = "idle" /\ pc[q] = "idle"
        /\ call[p].op = "add" /\ ret[p].status = "ok"
        /\ call[q].op = "add" /\ ret[q].status = "ok"
        /\ elapsed[q] > 0
        /\ \E i \in 1..Len(serial) : \E j \in 1..Len(serial) :
              i < j /\ serial[i] = ret[p].out[1] /\ serial[j] = ret[q].out[1]
        /\ readJsonArray(store).records = serial

\* the store file is as it was before the first call, or a whole document of
\* the collection the last completed write left
StoreIntact ==
    \/ ~store.exists
    \/ store = File(NOT_ARRAY)
    \/ store = File(stringify(serial))

\* a load returns the collection of the last completed write
LoadSeesCommitted ==
    \A p \in Procs :
        (call[p].op \in ReadOps /\ pc[p] # "idle" /\ pc'[p] = "idle")
            => \/ ret'[p].status = "ok" /\ loaded'[p] = serial
               \/ ret'[p].status = "MalformedStore" /\ store = File(NOT_ARRAY)

\* C3: at every instant the content at the store path is absent or a complete
\* JSON array equal to the collection of a completed write (a file that was
\* no JSON array before the first call stays as it was), and a load that runs
\* while a writer is at work never returns a partially written collection
AtomicVisibility == []StoreIntact /\ [][LoadSeesCommitted]_vars

\* a load is between existsSync and readFileSync while a writer has written
\* only the first character of its document
AtomicVisibilityWitness ==
    \E p \in Procs : \E q \in Procs :
        /\ pc[p] = "tmpWrite" /\ call[p].op \in MutatingOps
        /\ tmp[p].exists /\ Len(tmp[p].data) = 1
        /\ call[q].op = "load" /\ pc[q] = "readFile"

\* C4: when a process has stopped at any step of add, softDelete or purge,
\* the store file is the one the mutation found or the one it had to leave
CrashSafety ==
    \A p \in Procs :
        (~alive[p] /\ HoldsLock(p))
            => \/ store = before[p]
               \/ /\ pc[p] = "release"
                  /\ ret[p].status = "ok"
                  /\ store = File(stringify(LeftByCall(p)))

\* a process has stopped in the middle of writing its temporary file
CrashSafetyWitness ==
    \E p \in Procs :
        /\ ~alive[p]
        /\ pc[p] = "tmpWrite"
        /\ tmp[p].exists /\ tmp[p].data # stringify(pending[p])
        /\ store.exists

WorksUnderOwnLock ==
    \A p \in Procs :
        /\ Working(p) => (lock.exists /\ creator = p)
        /\ ret[p].status = "LockTimeout" => ~acquired[p]

\* the step that throws LockTimeout found the marker after the timeout had
\* passed, and leaves the store and the marker as they are
TimeoutLeavesAll ==
    \A p \in Procs :
        (ret[p].status # "LockTimeout" /\ ret'[p].status = "LockTimeout")
            => /\ lock.exists
               /\ elapsed[p] > LockTimeoutMs
               /\ store' = store
               /\ lock' = lock

\* the store file changes only in a step of the process that holds the lock
StoreChangesUnderLock ==
    store' # store => \E p \in Procs : Working(p) /\ creator = p /\ pc'[p] # pc[p]

\* C6: a mutating operation reads, modifies or writes the store only after
\* its own exclusive create of the marker succeeded; one that finds the
\* marker until the timeout is exceeded fails with LockTimeout, leaves the
\* store unchanged and does not delete the holder's marker
OnlyUnderLock ==
    /\ []WorksUnderOwnLock
    /\ [][TimeoutLeavesAll /\ StoreChangesUnderLock]_vars

\* a call has failed with LockTimeout while the holder is still at work and
\* its marker is still there
OnlyUnderLockWitness ==
    \E p \in Procs : \E q \in Procs :
        /\ pc[p] = "idle" /\ ret[p].status = "LockTimeout"
        /\ alive[q] /\ Working(q)
        /\ lock.exists /\ creator = q

\* C7: every call of add, softDelete or purge of a process that keeps running
\* eventually finishes, with success or with an error, whatever the other
\* processes do with the marker
Termination ==
    \A p \in Procs :
        (call[p].op \in MutatingOps /\ pc[p] # "idle") ~> (pc[p] = "idle" \/ ~alive[p])

\* a call has finished with LockTimeout although the holder of the marker
\* stopped and will never unlink it
TerminationWitness ==
    \E p \in Procs : \E q \in Procs :
        /\ pc[p] = "idle" /\ ret[p].status = "LockTimeout"
        /\ ~alive[q] /\ HoldsLock(q)
        /\ lock.exists /\ creator = q

\* once its work is done, a call that throws has left the store file as it
\* found it and a call that returns has left the whole mutation in it
EffectWholeOrNone ==
    \A p \in Procs :
        (HoldsLock(p) /\ pc[p] = "release")
            => IF ret[p].status = "ok"
               THEN /\ readJsonArray(store).error = "none"
                    /\ readJsonArray(store).records = LeftByCall(p)
               ELSE store = before[p]

\* the step in which a call throws leaves the store file as it is
ThrowLeavesStore ==
    \A p \in Procs :
        (ret'[p] # ret[p] /\ ret'[p].status \notin {"ok", "none"}) => store' = store

\* C8: when add, softDelete or purge fails with an error, the store file
\* content is the same as before the call; when it succeeds, the whole
\* mutation is in the store file
AllOrNothing == []EffectWholeOrNone /\ [][ThrowLeavesStore]_vars

\* an add has thrown EmptyMemory on a store that holds a record, and a purge
\* has been refused for want of a criterion
AllOrNothingWitness ==
    \E p \in Procs : \E q \in Procs :
        /\ pc[p] = "release" /\ ret[p].status = "EmptyMemory"
        /\ Len(FoundByCall(p)) > 0
        /\ pc[q] = "idle" /\ ret[q].status = "InvalidCriteria"

\* p's purge is putting its collection in the store's place
PurgeCommits(p) ==
    call[p].op = "purge" /\ pc[p] = "rename" /\ pc'[p] = "release"

\* every tombstoned record of the store file is still there, at its place and
\* tombstoned, after the step, unless the step is a purge's write; a purge
\* removes the record or keeps it as it is
TombstonesStay ==
    LET old == Stored(store)
        new == Stored(store')
    IN \A i \in 1..Len(old) :
          ~IsActive(old[i])
              => \/ /\ i <= Len(new)
                    /\ new[i].id = old[i].id
                    /\ ~IsActive(new[i])
                 \/ \E p \in Procs :
                       /\ PurgeCommits(p)
                       /\ \/ \E j \in 1..Len(new) : new[j] = old[i]
                          \/ \E j \in 1..Len(ret[p].ids) : ret[p].ids[j] = old[i].id

\* C9: once a record's deletedAt is set, no add, softDelete, purge, load,
\* search, compress, export or stats makes it absent again; the record stays
\* tombstoned until a purge removes it
NoResurrection == [][TombstonesStay]_vars

\* an add and a softDelete of the tombstoned record's id have both written or
\* returned, and the record is still tombstoned in the store file
NoResurrectionWitness ==
    \E p \in Procs : \E q \in Procs :
        /\ pc[p] = "idle" /\ call[p].op = "add" /\ ret[p].status = "ok"
        /\ pc[q] = "idle" /\ call[q].op = "softDelete" /\ ret[q].found
        /\ \E i \in 1..Len(Stored(store)) :
              /\ Stored(store)[i].id = call[q].id[1]
              /\ ~IsActive(Stored(store)[i])
        /\ Len(Stored(store)) = 2

----------------------------------------------------------------------------
(* What each operation does to the records *)

\* p's softDeleteById has done its work and is about to unlink the marker
SoftDeleteDone(p) ==
    /\ call[p].op = "softDelete"
    /\ pc[p] = "release"
    /\ ret[p].status = "ok"

\* the place in the collection p found of the record softDeleteById looks for
TargetOf(p) == findIndex(FoundByCall(p), call[p].id[1])

\* C11: softDeleteById on an existing id returns found = true, the first time
\* and again; on a record that already has deletedAt it writes nothing and
\* returns the record with the deletedAt and updatedAt of the first call
IdempotentSoftDelete ==
    \A p \in Procs :
        (SoftDeleteDone(p) /\ TargetOf(p) # 0) =>
            LET was == FoundByCall(p)[TargetOf(p)]
            IN /\ ret[p].found
               /\ was.deletedAt # Null =>
                     /\ store = before[p]
                     /\ ret[p].out = <<was>>
               /\ was.deletedAt = Null =>
                     /\ Stored(store)[TargetOf(p)].deletedAt # Null
                     /\ ret[p].out = <<Stored(store)[TargetOf(p)]>>

\* the third call, on day 1, is the second softDeleteById of the record the
\* first call added and the second call deleted on day 0
IdempotentSoftDeleteWitness ==
    /\ SoftDeleteDone(Solo)
    /\ calls = 3
    /\ now = 1
    /\ before[Solo] # File(stringify(PRELOADED))
    /\ TargetOf(Solo) # 0
    /\ FoundByCall(Solo)[TargetOf(Solo)].deletedAt = 0
    /\ ret[Solo].found

\* a mutation of p has returned normally and not yet released the lock
MutationDone(p) ==
    call[p].op \in MutatingOps /\ pc[p] = "release" /\ ret[p].status = "ok"

\* records a and b agree on every field fixed at creation
SameCreation(a, b) ==
    /\ a.id = b.id
    /\ a.text = b.text
    /\ a.tags = b.tags
    /\ a.keywords = b.keywords
    /\ a.createdAt = b.createdAt

\* the records of new are records of old, in the order they had there
IsSubSeqOf(new, old) ==
    \E keep \in SUBSET (1..Len(old)) :
        /\ Len(new) = Cardinality(keep)
        /\ \A i \in keep :
              new[Cardinality({j \in keep : j <= i})] = old[i]

\* C12: when a mutation has returned, every record it found is in the file
\* with the id, text, tags, keywords and createdAt it had; add leaves the
\* records it found as they were and in their places, before the new one;
\* softDelete keeps every place, and changes nothing but deletedAt and
\* updatedAt of one record that has the given id; purge only takes records out
FieldImmutability ==
    \A p \in Procs :
        MutationDone(p) =>
            LET old == FoundByCall(p)
                new == Stored(store)
            IN CASE call[p].op = "add" ->
                      /\ Len(new) = Len(old) + 1
                      /\ \A i \in 1..Len(old) : new[i] = old[i]
                 [] call[p].op = "softDelete" ->
                      /\ Len(new) = Len(old)
                      /\ \A i \in 1..Len(old) :
                            \/ new[i] = old[i]
                            \/ /\ old[i].id = call[p].id[1]
                               /\ SameCreation(old[i], new[i])
                      /\ Cardinality({i \in 1..Len(old) : new[i] # old[i]}) <= 1
                 [] OTHER -> IsSubSeqOf(new, old)

\* a softDelete stamped a tagged record in a file that holds another record
FieldImmutabilityWitness ==
    /\ SoftDeleteDone(Solo)
    /\ Len(FoundByCall(Solo)) = 2
    /\ TargetOf(Solo) # 0
    /\ FoundByCall(Solo)[TargetOf(Solo)].deletedAt = Null
    /\ FoundByCall(Solo)[TargetOf(Solo)].tags # <<>>
    /\ Stored(store) # FoundByCall(Solo)

\* C13: no two records in the store file have the same id
IdUniqueness ==
    \A i \in 1..Len(Stored(store)) : \A j \in 1..Len(Stored(store)) :
        i # j => Stored(store)[i].id # Stored(store)[j].id

\* no character of s is an upper-case letter
IsLowerCase(s) == toLowerCase(s) = s

\* the invariant of a record's text, tags and keywords
WellFormed(r) ==
    /\ r.text # <<>>
    /\ trim(r.text) = r.text
    /\ \A i \in 1..Len(r.tags) :
          /\ r.tags[i] # <<>>
          /\ trim(r.tags[i]) = r.tags[i]
          /\ IsLowerCase(r.tags[i])
          /\ \A j \in 1..Len(r.tags) : r.tags[j] = r.tags[i] => j = i
    /\ Len(r.keywords) <= 10
    /\ \A i \in 1..Len(r.keywords) :
          /\ IsLowerCase(r.keywords[i])
          /\ Len(r.keywords[i]) > 2
          /\ r.keywords[i] \notin STOP_WORDS

\* C14: every record in the store file has non-empty trimmed text, tags that
\* are trimmed, lower-case, not empty and pairwise different, and at most 10
\* keywords, each lower-case, longer than 2 characters and not a stop word
RecordWellFormedness ==
    \A i \in 1..Len(Stored(store)) : WellFormed(Stored(store)[i])

\* the file holds the record of an add whose text had more than 10 candidate
\* keywords, stop words and short words, and whose tags came untrimmed,
\* upper-case, blank and twice
RecordWellFormednessWitness ==
    \E i \in 1..Len(Stored(store)) :
        /\ Stored(store)[i].text = trim(TEXT_LONG)
        /\ Len(Distinct(keywordWords(TEXT_LONG))) > 10
        /\ Len(splitWs(stripNonWord(toLowerCase(TEXT_LONG)))) > Len(keywordWords(TEXT_LONG))
        /\ Len(Stored(store)[i].keywords) = 10
        /\ Stored(store)[i].tags = <<TAG_TMP>>

\* how many of id, tag and match the purge call c supplies
CriteriaGiven(c) ==
    Cardinality({k \in {"id", "tag", "match"} :
                    Truthy(CASE k = "id" -> purgeId(c)
                             [] k = "tag" -> purgeTag(c)
                             [] OTHER -> purgeMatch(c))})

\* C15: a purge called with more than one criterion returns InvalidCriteria,
\* without having taken the lock, and the store file is as the call found it
PurgeOneCriterion ==
    \A p \in Procs :
        (call[p].op = "purge" /\ CriteriaGiven(call[p]) > 1 /\ ret[p] # NoRet) =>
            /\ ret[p].status = "InvalidCriteria"
            /\ ~acquired[p]
            /\ pc[p] = "idle"

\* C16: a purge called with id, tag and match all absent or blank has thrown
\* InvalidCriteria and is over: it never asked for the lock marker and read
\* nothing of the store file, whoever holds the lock and whatever the file is
PurgeNoCriterion ==
    \A p \in Procs :
        (call[p].op = "purge" /\ CriteriaGiven(call[p]) = 0) =>
            /\ pc[p] = "idle"
            /\ ret[p] = Thrown("InvalidCriteria")
            /\ ~acquired[p]
            /\ before[p] = Absent
            /\ records[p] = <<>>

\* the purge without criteria has failed so while the other process holds
\* the lock over a store file that is not a JSON array
PurgeNoCriterionWitness ==
    \E p \in Procs : \E q \in Procs \ {p} :
        /\ call[p].op = "purge"
        /\ call[p].match = <<TEXT_BLANK>>
        /\ ret[p] = Thrown("InvalidCriteria")
        /\ calls = 2
        /\ acquired[q]
        /\ pc[q] = "readFile"
        /\ store = File(NOT_ARRAY)

\* the same with every criterion absent, the marker left by a dead process
PurgeNoCriterionAbsentWitness ==
    \E p \in Procs : \E q \in Procs \ {p} :
        /\ call[p] = [NoCall EXCEPT !.op = "purge"]
        /\ ret[p] = Thrown("InvalidCriteria")
        /\ lock.exists
        /\ creator = q
        /\ ~alive[q]

\* a purge of p has returned normally and not yet released the lock
PurgeDone(p) == call[p].op = "purge" /\ MutationDone(p)

\* the records of old that are no longer in new
Gone(old, new) == SelectSeq(old, LAMBDA r : r \notin Range(new))

\* what a purge that is not a dry run leaves of the collection coll
KeptBy(c, coll) == purgeKept(coll, purgeId(c), purgeTag(c), purgeMatch(c))

\* C17: a purge that is not a dry run returns the ids of the records it
\* takes out of the file; a dry run returns the ids of the records the same
\* purge would take out of the file it found, and leaves that file as it is
DryRunPurge ==
    \A p \in Procs :
        PurgeDone(p) =>
            LET old == FoundByCall(p)
            IN IF call[p].dryRun
               THEN /\ ret[p].ids = idsOf(Gone(old, KeptBy(call[p], old)))
                    /\ store = before[p]
                    /\ \A i \in 1..Len(ret[p].ids) :
                          ret[p].ids[i] \in Range(idsOf(readJsonArray(store).records))
               ELSE /\ Stored(store) = KeptBy(call[p], old)
                    /\ ret[p].ids = idsOf(Gone(old, Stored(store)))

\* a dry run over two records, one of which the purge would take out
DryRunPurgeWitness ==
    /\ PurgeDone(Solo)
    /\ call[Solo].dryRun
    /\ Len(FoundByCall(Solo)) = 2
    /\ Len(ret[Solo].ids) = 1
    /\ Stored(store) = FoundByCall(Solo)

\* C18: an add called with empty or blank text ends with EmptyMemory and has
\* not touched storage: it has not created the lock marker and has not read
\* the store file, whatever the lock state and the store content are
AddBlankText ==
    \A p \in Procs :
        (call[p].op = "add" /\ trim(call[p].text) = <<>>) =>
            /\ ~acquired[p]
            /\ records[p] = <<>>
            /\ ret[p] # NoRet => ret[p] = Thrown("EmptyMemory")

\* store files with nothing in them, and store files that are not a JSON
\* array: a JSON object, and text that is not JSON at all
EmptyFiles == {Absent, File(EMPTY_TEXT)}
MalformedFiles == {File(NOT_ARRAY), File(NOT_JSON)}

\* the errors readJsonArray throws on a malformed store: its own, and
\* JSON.parse's
MalformedStoreErrors == {"MalformedStore", "SyntaxError"}

\* what a finished load gave, and what became of a mutation on a malformed
\* store file
MalformedStoreOutcome ==
    \A p \in Procs :
        /\ (call[p].op = "load" /\ ret[p] # NoRet /\ store \in EmptyFiles) =>
              ret[p] = Ok(FALSE, <<>>, <<>>) /\ loaded[p] = <<>>
        /\ (call[p].op = "load" /\ ret[p] # NoRet /\ store \in MalformedFiles) =>
              ret[p].status \in MalformedStoreErrors
        /\ (call[p].op \in MutatingOps /\ store \in MalformedFiles) =>
              /\ ret[p].status # "ok"
              /\ pc[p] \notin {"tmpOpen", "tmpWrite", "rename"}
              /\ (pc[p] = "idle" /\ ret[p] # NoRet) => ~lock.exists

\* C19: load gives no records when the store file is absent or empty and
\* fails when it is not a JSON array; a mutation on such a file fails and has
\* released the lock when it is over, and no step changes such a file
MalformedStoreFails ==
    /\ []MalformedStoreOutcome
    /\ [][(store \in MalformedFiles) => (store' = store)]_vars

\* an add with a text took the lock on a store file that is not a JSON
\* array, failed on reading it, and has released the lock
MalformedStoreFailsWitness ==
    /\ call[Solo].op = "add"
    /\ call[Solo].text = TEXT_DARK
    /\ store = File(NOT_ARRAY)
    /\ acquired[Solo]
    /\ pc[Solo] = "idle"
    /\ ret[Solo] = Thrown("MalformedStore")
    /\ ~lock.exists
    /\ calls = 3

\* some token of the query adds to the score of r: a text occurrence, a tag
\* match or a keyword match
TokenContributes(r, query) ==
    \E k \in 1..Len(queryTokens(toLowerCase(trim(query)))) :
        tokenPoints(r, queryTokens(toLowerCase(trim(query)))[k]) > 0

\* C20: every hit search returns is a record to which at least one token of
\* the query contributes; recency alone makes no record a hit
SearchHitRule ==
    answer.op = "search" =>
        \A j \in 1..Len(answer.hits) :
            \A i \in 1..Len(asked.records) :
                asked.records[i].id = answer.hits[j].id
                    => TokenContributes(asked.records[i], asked.query)

----------------------------------------------------------------------------
(* What search and compressDeterministic return *)

\* C21: for every collection, limit and day, a search whose query is empty
\* or all white space returns no hit, and every record of the collection
\* scores exactly 0 for it
EmptyQueryNoHits ==
    (answer.op = "search" /\ trim(asked.query) = <<>>) =>
        /\ answer.hits = <<>>
        /\ \A i \in 1..Len(asked.records) :
              scoreRecord(asked.records[i], asked.query, asked.now) = 0

\* a blank query was put to a collection with records that are not deleted
\* and as fresh as can be
EmptyQueryNoHitsWitness ==
    /\ answer.op = "search"
    /\ asked.query = QUERY_NONE
    /\ asked.now = 0
    /\ asked.limit = DEFAULT_COMPRESS_LIMIT
    /\ \E i \in 1..Len(asked.records) : IsActive(asked.records[i])

\* the records search may return: not deleted, and scored above 0
Eligible ==
    {i \in 1..Len(asked.records) :
        /\ IsActive(asked.records[i])
        /\ scoreRecord(asked.records[i], asked.query, asked.now) > 0}

\* the eligible records that are not among the hits returned
Omitted ==
    {i \in Eligible :
        \A j \in 1..Len(answer.hits) : answer.hits[j].id # asked.records[i].id}

\* C22: the hits of search come in non-increasing order of score, there are
\* at most max(1, limit) of them, each is an eligible record with its score,
\* no eligible record left out scores higher than a hit, and none is left out
\* while there is room
SearchOrderAndLimit ==
    answer.op = "search" =>
        /\ \A j \in 1..(Len(answer.hits) - 1) :
              answer.hits[j].score >= answer.hits[j + 1].score
        /\ Len(answer.hits) <= (IF asked.limit > 1 THEN asked.limit ELSE 1)
        /\ \A j \in 1..Len(answer.hits) :
              \E i \in Eligible :
                  /\ asked.records[i].id = answer.hits[j].id
                  /\ scoreRecord(asked.records[i], asked.query, asked.now)
                        = answer.hits[j].score
        /\ \A i \in Omitted : \A j \in 1..Len(answer.hits) :
              scoreRecord(asked.records[i], asked.query, asked.now)
                  <= answer.hits[j].score
        /\ Omitted # {} => Len(answer.hits) = (IF asked.limit > 1 THEN asked.limit ELSE 1)

\* a search with limit 0 returned one hit, the best, and left out an eligible
\* record with a lower score that comes before it in the collection
SearchOrderAndLimitWitness ==
    /\ answer.op = "search"
    /\ asked.limit = 0
    /\ Len(answer.hits) = 1
    /\ \E i \in Omitted :
          /\ scoreRecord(asked.records[i], asked.query, asked.now) < answer.hits[1].score
          /\ \E k \in Eligible : k > i /\ asked.records[k].id = answer.hits[1].id

\* a search with limit 2 returned two hits of different scores
SearchOrderWitness ==
    /\ answer.op = "search"
    /\ asked.limit = 2
    /\ Len(answer.hits) = 2
    /\ answer.hits[1].score > answer.hits[2].score
    /\ Omitted # {}

\* C23: for every record, query and day, the record with one more tag, equal
\* to a token of the query, scores strictly higher than the record without it
TagRaisesScore ==
    answer.op = "score" => answer.hits[2].score > answer.hits[1].score

\* the record without the tag scored 0: it is old and no token is in its
\* text, tags or keywords
TagRaisesScoreWitness ==
    /\ answer.op = "score"
    /\ asked.now = RECENCY_MAX * SCORE_SCALE
    /\ answer.hits[1].score = 0
    /\ Len(answer.hits[2].tags) = Len(answer.hits[1].tags) + 1

\* the record without the tag scored already, and had another tag
TagRaisesScoreTaggedWitness ==
    /\ answer.op = "score"
    /\ asked.query = QUERY_DARK
    /\ asked.now = 0
    /\ answer.hits[1].tags = <<TAG_TMP>>
    /\ answer.hits[1].score > RECENCY_MAX * SCORE_SCALE

\* C24: the text compressDeterministic returns is at most max(200, budget)
\* characters long, and the used count it reports is the length of that text
BudgetRespect ==
    answer.op = "compress" =>
        /\ Len(answer.markdown) <= (IF asked.budget > 200 THEN asked.budget ELSE 200)
        /\ answer.used = Len(answer.markdown)

\* the rendering of the hits is longer than a budget above the floor, and
\* the text returned leaves hits out
BudgetRespectWitness ==
    /\ answer.op = "compress"
    /\ asked.budget = TightBudget
    /\ Len(Join(renderLines(answer.hits), <<"\n">>)) + 1 > TightBudget
    /\ answer.used > 200
    /\ \E j \in 1..Len(answer.hits) : ~includes(answer.markdown, answer.hits[j].id)

RECURSIVE splitLines(_)
\* text.split("\n")
splitLines(text) ==
    IF \A i \in 1..Len(text) : text[i] # "\n" THEN <<text>>
    ELSE LET i == CHOOSE i \in 1..Len(text) :
                      text[i] = "\n" /\ \A j \in 1..(i - 1) : text[j] # "\n"
         IN <<SubSeq(text, 1, i - 1)>> \o splitLines(SubSeq(text, i + 1, Len(text)))

\* the lines of a text that ends with a line break
LinesOf(text) == SubSeq(splitLines(text), 1, Len(splitLines(text)) - 1)

\* C25: the text compressDeterministic returns ends with a line break, and
\* its lines are the first lines of the untruncated rendering (title, blank
\* line, section header, one line per hit in rank order), each of them whole
NoPartialLines ==
    answer.op = "compress" =>
        /\ answer.markdown # <<>>
        /\ answer.markdown[Len(answer.markdown)] = "\n"
        /\ Len(LinesOf(answer.markdown)) <= Len(renderLines(answer.hits))
        /\ \A i \in 1..Len(LinesOf(answer.markdown)) :
              LinesOf(answer.markdown)[i] = renderLines(answer.hits)[i]

\* hit lines were dropped, and the next line would have fitted in part
NoPartialLinesWitness ==
    /\ answer.op = "compress"
    /\ Len(LinesOf(answer.markdown)) > 3
    /\ Len(LinesOf(answer.markdown)) < Len(renderLines(answer.hits))
    /\ Len(answer.markdown) + 1 < (IF asked.budget > 200 THEN asked.budget ELSE 200)

----------------------------------------------------------------------------
(* The callers of compressDeterministic that may go on to the DeepSeek     *)
(* service: the shell's compress command, the protocol server's            *)
(* memory_compress and inject_context tools and its inject-context prompt. *)
(* One process serves them; while it awaits the service it can serve other *)
(* calls.  asked is the call, answer what has become of it.                *)

\* data.choices[0].message.content of a reply that has one
REPLY == <<"S","h","a","p","e","d">>

\* the process is not inside a synchronous block of another call
AtAwait == pc[Solo] \in {"idle", "acquire"}

InitRemote ==
    /\ \E file \in {Absent, File(stringify(ADDED))} : Start(file)
    /\ asked \in {q \in [path : {"cmdCompress", "memory_compress", "inject_context",
                                 "inject-context"},
                         requested : BOOLEAN,
                         key : BOOLEAN,
                         query : {QUERY_DARK, QUERY_NONE},
                         budget : {0, DEFAULT_BUDGET}] :
                    /\ q.path = "inject_context" => ~q.requested
                    /\ q.path # "cmdCompress" => q.budget >= MIN_BUDGET}
    /\ answer = NoAnswer

\* handleLine's loadStore and cmdCompress, up to the await or the console.log
CmdCompress ==
    /\ answer.op = "none"
    /\ asked.path = "cmdCompress"
    /\ AtAwait
    /\ readJsonArray(store).error = "none"
    /\ LET det == compressDeterministic(readJsonArray(store).records, asked.query,
                                        asked.budget, DEFAULT_COMPRESS_LIMIT, now)
       IN answer' =
            IF trim(asked.query) = <<>>
            THEN [op |-> "returned", markdown |-> <<>>, contacted |-> FALSE,
                  outcome |-> "none", failed |-> FALSE,
                  text |-> << <<"compress requires --query">> >>]
            ELSE IF asked.requested /\ asked.key
            THEN [op |-> "awaiting", markdown |-> det.markdown, contacted |-> TRUE,
                  outcome |-> "none", failed |-> FALSE, text |-> <<>>]
            ELSE [op |-> "returned", markdown |-> det.markdown, contacted |-> FALSE,
                  outcome |-> "none", failed |-> FALSE, text |-> <<det.markdown>>]
    /\ UNCHANGED <<storeVars, asked>>

\* the memory_compress tool, up to the await or the return
MemoryCompress ==
    /\ answer.op = "none"
    /\ asked.path = "memory_compress"
    /\ AtAwait
    /\ readJsonArray(store).error = "none"
    /\ LET det == compressDeterministic(readJsonArray(store).records, trim(asked.query),
                                        asked.budget, DEFAULT_COMPRESS_LIMIT, now)
       IN answer' =
            IF asked.requested /\ asked.key
            THEN [op |-> "awaiting", markdown |-> det.markdown, contacted |-> TRUE,
                  outcome |-> "none", failed |-> FALSE, text |-> <<>>]
            ELSE [op |-> "returned", markdown |-> det.markdown, contacted |-> FALSE,
                  outcome |-> "none", failed |-> FALSE, text |-> <<det.markdown>>]
    /\ UNCHANGED <<storeVars, asked>>

\* the inject_context tool, up to the await or the return; it has no
\* argument to ask for shaping with
InjectContextTool ==
    /\ answer.op = "none"
    /\ asked.path = "inject_context"
    /\ AtAwait
    /\ readJsonArray(store).error = "none"
    /\ LET det == compressDeterministic(readJsonArray(store).records, trim(asked.query),
                                        asked.budget, DEFAULT_COMPRESS_LIMIT, now)
       IN answer' =
            IF trim(asked.query) = <<>>
            THEN [op |-> "returned", markdown |-> <<>>, contacted |-> FALSE,
                  outcome |-> "none", failed |-> TRUE,
                  text |-> << <<"Error: task parameter is required">> >>]
            ELSE IF det.included = <<>>
            THEN [op |-> "returned", markdown |-> det.markdown, contacted |-> FALSE,
                  outcome |-> "none", failed |-> FALSE,
                  text |-> << <<"## No Relevant Context Found">> >>]
            ELSE IF asked.key
            THEN [op |-> "awaiting", markdown |-> det.markdown, contacted |-> TRUE,
                  outcome |-> "none", failed |-> FALSE, text |-> <<>>]
            ELSE [op |-> "returned", markdown |-> det.markdown, contacted |-> FALSE,
                  outcome |-> "none", failed |-> FALSE,
                  text |-> <<det.markdown, <<"deterministic">> >>]
    /\ UNCHANGED <<storeVars, asked>>

\* the inject-context prompt, up to the await or the return
InjectContextPrompt ==
    /\ answer.op = "none"
    /\ asked.path = "inject-context"
    /\ AtAwait
    /\ readJsonArray(store).error = "none"
    /\ LET det == compressDeterministic(readJsonArray(store).records, trim(asked.query),
                                        asked.budget, DEFAULT_COMPRESS_LIMIT, now)
       IN answer' =
            IF asked.requested /\ asked.key
            THEN [op |-> "awaiting", markdown |-> det.markdown, contacted |-> TRUE,
                  outcome |-> "none", failed |-> FALSE, text |-> <<>>]
            ELSE [op |-> "returned", markdown |-> det.markdown, contacted |-> FALSE,
                  outcome |-> "none", failed |-> FALSE,
                  text |-> << <<IF asked.requested THEN " (DeepSeek not configured)"
                                ELSE "">>,
                              det.markdown, trim(asked.query)>>]
    /\ UNCHANGED <<storeVars, asked>>

\* deepSeekCompress or deepSeekShape settles: with a reply that has content,
\* or by throwing on a network error, a status that is not OK or a reply
\* without content; then the rest of the caller.  A service that never
\* answers leaves the call awaiting.
RemoteReply ==
    /\ answer.op = "awaiting"
    /\ AtAwait
    /\ \E o \in {"content", "network", "status", "malformed"} :
          LET thrown == o # "content"
              content == SubSeq(REPLY, 1, Min(Len(REPLY), asked.budget))
          IN answer' =
               CASE asked.path = "cmdCompress" ->
                      [answer EXCEPT !.op = "returned", !.outcome = o, !.failed = thrown,
                                     !.text = IF thrown THEN << <<"Error: ", o>> >>
                                              ELSE <<content>>]
                 [] asked.path = "memory_compress" ->
                      [answer EXCEPT !.op = "returned", !.outcome = o, !.failed = thrown,
                                     !.text = IF thrown THEN <<>> ELSE <<content>>]
                 [] asked.path = "inject_context" ->
                      [answer EXCEPT !.op = "returned", !.outcome = o,
                                     !.text = IF thrown
                                              THEN <<answer.markdown, <<"deterministic">> >>
                                              ELSE <<content, <<"deepseek">> >>]
                 [] OTHER ->
                      [answer EXCEPT !.op = "returned", !.outcome = o,
                                     !.text =
                                        IF thrown
                                        THEN << <<" (shaping failed, using deterministic)">>,
                                                answer.markdown, trim(asked.query)>>
                                        ELSE << <<" (AI-shaped)">>, content,
                                                trim(asked.query)>>]
    /\ UNCHANGED <<storeVars, asked>>

NextRemote ==
    \/ CmdCompress
    \/ MemoryCompress
    \/ InjectContextTool
    \/ InjectContextPrompt
    \/ RemoteReply
    \/ CallRead(Solo)
    \/ CallMutation(Solo)
    \/ AcquireLock(Solo)
    \/ LockWrite(Solo)
    \/ Exists(Solo)
    \/ ReadFile(Solo)
    \/ TmpOpen(Solo)
    \/ TmpWrite(Solo)
    \/ Rename(Solo)
    \/ Release(Solo)

SpecRemote == InitRemote /\ [][NextRemote]_vars

\* C26: when the service was called and the call failed, the operation has
\* not failed and returns the text compressDeterministic gave before the call
RemoteFallback ==
    (answer.op = "returned" /\ answer.contacted /\ answer.outcome # "content") =>
        /\ ~answer.failed
        /\ answer.markdown \in Range(answer.text)

\* C27: the service is called only in a call that asked for it, and only
\* with a credential configured
RemoteOnlyOnRequest ==
    (answer.op # "none" /\ answer.contacted) => (asked.requested /\ asked.key)

\* the step belongs to a read: loadStore for load, search, compress, export
\* or stats, from the call to the return
ReadStep ==
    \E p \in Procs : call'[p].op \in ReadOps /\ pc'[p] # pc[p]

\* the step belongs to a caller that may go on to the remote service: its
\* synchronous part, or the return of the remote call
RemoteStep == answer' # answer

\* C29: no step of load, search, compress, export or stats, and no step of a
\* compress or shaping call, before or after the remote service answered,
\* failed or fell silent, changes the store file or the lock marker
ReadsLeaveStore ==
    [][(ReadStep \/ RemoteStep) => (store' = store /\ lock' = lock)]_vars

\* the remote service has been called and has not answered; meanwhile a
\* record was added and read again, and the store file and the marker are as
\* the add left them
ReadsLeaveStoreWitness ==
    /\ answer.op = "awaiting"
    /\ call[Solo].op \in ReadOps
    /\ pc[Solo] = "idle"
    /\ ret[Solo].status = "ok"
    /\ calls = 2
    /\ Len(Stored(store)) = Len(ADDED) + 1
    /\ ~lock.exists

\* the remote call failed and the caller has returned
RemoteFailedWitness ==
    /\ answer.op = "returned"
    /\ answer.outcome = "network"
    /\ asked.path = "inject-context"
    /\ answer.markdown \in Range(answer.text)
    /\ store = File(stringify(ADDED))

\* a read is at loadStore or over; it has not asked for the marker and has
\* not slept waiting for it
ReadsNeverLock ==
    \A p \in Procs :
        call[p].op \in ReadOps =>
            /\ pc[p] \in {"idle", "exists", "readFile"}
            /\ ~acquired[p]
            /\ elapsed[p] = 0

\* a read's step goes ahead whatever the marker is and leaves the marker as
\* it is; the step that returns gives the collection of the last completed
\* write
ReadsPastLock ==
    \A p \in Procs :
        (call'[p].op \in ReadOps /\ pc'[p] # pc[p]) =>
            /\ lock' = lock
            /\ (pc[p] # "idle" /\ pc'[p] = "idle" /\ store # File(NOT_ARRAY)) =>
                  ret'[p].status = "ok" /\ loaded'[p] = serial

\* C28: load, search, compress, export and stats never create the lock
\* marker nor wait for it, and return a committed collection also while the
\* marker exists
ReadsTakeNoLock == []ReadsNeverLock /\ [][ReadsPastLock]_vars

\* a read has returned the committed collection while the marker of a
\* process that died holding the lock is still there
ReadsTakeNoLockWitness ==
    \E p \in Procs : \E q \in Procs \ {p} :
        /\ call[p].op \in ReadOps
        /\ pc[p] = "idle"
        /\ ret[p].status = "ok"
        /\ loaded[p] = serial
        /\ serial # <<>>
        /\ lock.exists
        /\ creator = q
        /\ ~alive[q]
        /\ pc[q] = "exists"
        /\ calls = 2

\* stats has returned what computeStats made of the collection it loaded
StatsDone(p) == call[p].op = "stats" /\ pc[p] = "idle" /\ ret[p].status = "ok"

\* how many records of the store file have deletedAt set
DeletedInStore ==
    Cardinality({i \in 1..Len(Stored(store)) : Stored(store)[i].deletedAt # Null})

\* C30: after any adds, softDeletes and purges, stats reports the number of
\* records in the store file as total, the number of those with deletedAt
\* set as deleted, and total = active + deleted
StatsConsistency ==
    \A p \in Procs :
        StatsDone(p) =>
            /\ ret[p].out.total = Len(Stored(store))
            /\ ret[p].out.deleted = DeletedInStore
            /\ ret[p].out.total = ret[p].out.active + ret[p].out.deleted

\* two adds to an empty store, a softDelete of the first record, then stats:
\* total 2, active 1, deleted 1
StatsConsistencyWitness ==
    /\ StatsDone(Solo)
    /\ calls = 4
    /\ Len(Stored(store)) = 2
    /\ Stored(store)[1].deletedAt # Null
    /\ Stored(store)[1].deletedAt > Stored(store)[1].createdAt
    /\ Stored(store)[2].deletedAt = Null
    /\ ret[Solo].out.total = 2
    /\ ret[Solo].out.active = 1
    /\ ret[Solo].out.deleted = 1

----------------------------------------------------------------------------
(* Round trips, sequencing and the score formula *)

\* addMemory of p has written the store and returned its record to the
\* finally block
AddDone(p) == call[p].op = "add" /\ pc[p] = "release" /\ ret[p].status = "ok"

\* q's loadStore returns in this step
LoadReturns(q) ==
    /\ call[q].op = "load"
    /\ pc[q] \in {"exists", "readFile"}
    /\ pc'[q] = "idle"

\* C31: a load that returns once an add has returned gives the records the
\* add found in the store, as they were written there and in their order,
\* followed by the record the add returned, equal in every field
AddRoundTrip ==
    [][\A p \in Procs : \A q \in Procs :
          (AddDone(p) /\ LoadReturns(q)) =>
              /\ ret'[q].status = "ok"
              /\ loaded'[q] = Append(Stored(before[p]), ret[p].out[1])]_vars

\* a load has returned the tombstoned record the store held, then the tagged
\* record an add has just returned
AddRoundTripWitness ==
    \E p \in Procs : \E q \in Procs :
        /\ AddDone(p)
        /\ call[q].op = "load" /\ pc[q] = "idle" /\ ret[q].status = "ok"
        /\ Len(loaded[q]) = 2
        /\ loaded[q][1] = PRELOADED[1]
        /\ loaded[q][2] = ret[p].out[1]
        /\ loaded[q][2].tags = <<TAG_TMP>>
        /\ loaded[q][2].keywords # <<>>
        /\ loaded[q][2].createdAt > 0

----------------------------------------------------------------------------
(* The shell: rl.on("line") starts handleLine for each line and does not   *)
(* wait for the handler of the line before.  Two lines arrive together;    *)
(* handler h serves line h.  A handler runs until it awaits a timer, which  *)
(* only the sleep in acquireLock sets, so the handler of the second line    *)
(* starts when the first one sleeps or is done.  Another process can hold   *)
(* the lock marker.  elapsed[h] is the time at which h's sleep ends.        *)

\* the event loop gives h its turn: no other handler is between two awaits,
\* and if h sleeps in acquireLock, its timer is the next one to fire
Turn(h) ==
    LET Sleeping(g) == pc[g] = "acquire" /\ elapsed[g] > 0
    IN \A g \in Procs \ {h} :
          /\ pc[g] = "idle" \/ Sleeping(g)
          /\ (Sleeping(h) /\ Sleeping(g)) =>
                \/ elapsed[h] < elapsed[g]
                \/ elapsed[h] = elapsed[g] /\ h < g

\* handleLine for line h: cmdAdd, cmdDelete or cmdPurge calls the store
Line(h) ==
    /\ call[h] = NoCall
    /\ \A g \in Procs : g < h => call[g] # NoCall
    /\ \A g \in Procs :
          pc[g] = "idle" \/ (pc[g] = "acquire" /\ elapsed[g] \in SleepChoices)
    /\ \E c \in {[NoCall EXCEPT !.op = "add",
                                !.text = IF h = 1 THEN TEXT_DARK ELSE TEXT_LIGHT],
                 [NoCall EXCEPT !.op = "purge", !.match = <<MATCH_AR>>]}
                \cup SoftDeleteCalls :
          call' = [call EXCEPT ![h] = c]
    /\ pc' = [pc EXCEPT ![h] = "acquire"]
    /\ ret' = [ret EXCEPT ![h] = NoRet]
    /\ Fresh(h)
    /\ UNCHANGED <<store, lock, tmp, now, faults, creator, serial, loaded, alive,
                   asked, answer>>

\* the other process, the protocol server on the same store, takes the lock
\* for a mutation that writes nothing, or releases it
OtherProcess ==
    LET other == NumProcs + 1
    IN /\ IF creator = other
          THEN lock' = Absent /\ creator' = 0
          ELSE /\ openExclusive(lock)
               /\ \A h \in Procs : call[h] = NoCall
               /\ lock' = File(<<other>>)
               /\ creator' = other
       /\ UNCHANGED <<store, tmp, now, pc, call, elapsed, records, pending, ret,
                      calls, faults, acquired, before, serial, loaded, alive,
                      asked, answer>>

NextShell ==
    \/ \E h \in Procs : Line(h)
    \/ \E h \in Procs : Turn(h) /\ Step(h)
    \/ OtherProcess

SpecShell == Init /\ [][NextShell]_vars

\* both lines were adds and both have been served
BothAdded ==
    \A h \in Procs :
        call[h].op = "add" /\ pc[h] = "idle" /\ ret[h].status = "ok"

\* where record r is in the store file (0: nowhere)
PlaceOf(r) ==
    LET at == {i \in 1..Len(Stored(store)) : Stored(store)[i] = r}
    IN IF at = {} THEN 0 ELSE CHOOSE i \in at : TRUE

\* C32: the shell's mutations are applied one at a time and in the order of
\* their lines, also when the second line is handled before the first has
\* been served: no handler works on the store while another does, and the
\* record of the first line's add is in the file before the record of the
\* second line's add
ShellSequenced ==
    /\ \A g \in Procs : \A h \in Procs : (Working(g) /\ Working(h)) => g = h
    /\ BothAdded => PlaceOf(ret[1].out[1]) < PlaceOf(ret[2].out[1])

\* the places in text where tok stands
Occurrences(tok, text) ==
    {i \in 1..Len(text) :
        i + Len(tok) - 1 <= Len(text) /\ SubSeq(text, i, i + Len(tok) - 1) = tok}

\* what the token at each place of toks adds up to for hit h
RECURSIVE TokenSum(_, _)
TokenSum(h, toks) ==
    IF toks = <<>> THEN 0
    ELSE 5 * Cardinality(Occurrences(Head(toks), toLowerCase(h.text)))
         + (IF \E t \in Range(h.tags) : t = Head(toks) THEN 8 ELSE 0)
         + (IF \E k \in Range(h.keywords) : k = Head(toks) THEN 6 ELSE 0)
         + TokenSum(h, Tail(toks))

\* the pieces of the lower-cased query between runs of whitespace
AskedTokens ==
    SelectSeq(splitWs(toLowerCase(trim(asked.query))), LAMBDA w : w # <<>>)

\* C33: for a non-empty query, the score of a record is the sum, over the
\* whitespace-separated tokens of the query, of 5 for each occurrence of the
\* token in the lower-cased text, 8 if a tag equals the token and 6 if a
\* stored keyword equals it, plus the recency bonus once; a token that is
\* twice in the query counts twice
ScoreFormula ==
    (answer.op \in {"score", "search"} /\ trim(asked.query) # <<>>) =>
        \A k \in 1..Len(answer.hits) :
            answer.hits[k].score =
                TokenSum(answer.hits[k], AskedTokens) * SCORE_SCALE
                + recency(answer.hits[k], asked.now)

\* "Dark  dark" scored against a text that holds the word twice and as a
\* keyword, without and with the tag "dark": each of the two tokens counts
ScoreFormulaWitness ==
    /\ answer.op = "score"
    /\ asked.query = QUERY_TWICE
    /\ asked.now = 0
    /\ answer.hits[1].text = TEXT_LONG
    /\ answer.hits[1].updatedAt = 0
    /\ answer.hits[1].tags = <<>>
    /\ QUERY_DARK \in Range(answer.hits[1].keywords)
    /\ answer.hits[1].score = (2 * (2 * 5 + 6) + 5) * SCORE_SCALE
    /\ answer.hits[2].score = (2 * (2 * 5 + 8 + 6) + 5) * SCORE_SCALE

\* the part of hit h's score that the tokens did not add
BonusOf(h) == h.score - TokenSum(h, AskedTokens) * SCORE_SCALE

\* C34: for every record and every current time, a time before the record's
\* updatedAt included, the recency bonus is between 0 and 5; it is 5 at age 0
\* and 0 at every age of 150 days or more
RecencyBounds ==
    (answer.op \in {"score", "search"} /\ trim(asked.query) # <<>>) =>
        \A k \in 1..Len(answer.hits) :
            LET h == answer.hits[k]
                age == asked.now - h.updatedAt
            IN /\ BonusOf(h) >= 0
               /\ BonusOf(h) <= RECENCY_MAX * SCORE_SCALE
               /\ age = 0 => BonusOf(h) = RECENCY_MAX * SCORE_SCALE
               /\ age >= 150 => BonusOf(h) = 0

\* the score of the record at place i of the collection asked about
ScoreAt(i) == scoreRecord(asked.records[i], asked.query, asked.now)

\* the eligible record that has k - 1 eligible records before it in rank: a
\* higher score first, and of two equal scores the earlier in the collection
PlaceOfRank(k) ==
    CHOOSE i \in Eligible :
        Cardinality({j \in Eligible :
                        \/ ScoreAt(j) > ScoreAt(i)
                        \/ ScoreAt(j) = ScoreAt(i) /\ j < i}) = k - 1

\* the one sequence of hits the collection, query, limit and day allow
RankedHits ==
    [k \in 1..Min(Cardinality(Eligible), Max(1, asked.limit)) |->
        hitOf(asked.records[PlaceOfRank(k)], asked.query, asked.now)]

\* the one text the hits and the budget allow: the lines of the rendering
\* up to the first that does not fit
FittingText(hits, budget) ==
    LET lines == renderLines(hits)
        size(n) == Len(Join(SubSeq(lines, 1, n), <<"\n">>)) + 1
        n == CHOOSE n \in 0..Len(lines) :
                /\ n > 0 => size(n) <= budget
                /\ n < Len(lines) => size(n + 1) > budget
    IN IF n = 0 THEN <<"\n">> ELSE Join(SubSeq(lines, 1, n), <<"\n">>) \o <<"\n">>

DeterministicTextWitness ==
    /\ answer.op = "compress"
    /\ asked.budget = TightBudget
    /\ Len(answer.hits) >= 3
    /\ answer.hits[2].score = answer.hits[3].score
    /\ Len(LinesOf(answer.markdown)) < Len(renderLines(answer.hits))

\* the lines of the text after the title, the blank line and the header
HitLinesIn(text) == Max(0, Len(LinesOf(text)) - 3)

MatchesCriterion(c, r) ==
    IF Truthy(trimOpt(c.id)) THEN r.id = trim(c.id[1])
    ELSE IF Truthy(trimOpt(c.tag))
         THEN \E t \in Range(r.tags) : toLowerCase(t) = toLowerCase(trim(c.tag[1]))
         ELSE includes(toLowerCase(r.text), toLowerCase(trim(c.match[1])))

\* C37: a purge with one criterion that is not a dry run takes out of the
\* store file exactly the records that match, tombstoned or not, leaves the
\* others as they were and in their order, and returns the ids of the
\* records taken out, as many as there are
PurgeRemovesMatching ==
    \A p \in Procs :
        (PurgeDone(p) /\ ~call[p].dryRun /\ CriteriaGiven(call[p]) = 1) =>
            LET old == FoundByCall(p)
            IN /\ Stored(store) =
                     SelectSeq(old, LAMBDA r : ~MatchesCriterion(call[p], r))
               /\ ret[p].ids =
                     idsOf(SelectSeq(old, LAMBDA r : MatchesCriterion(call[p], r)))
               /\ Len(ret[p].ids) + Len(Stored(store)) = Len(old)

\* a purge by tag took out a tombstoned record and a record that was never
\* soft-deleted, and kept the untagged record between them
PurgeRemovesMatchingWitness ==
    /\ PurgeDone(Solo)
    /\ ~call[Solo].dryRun
    /\ call[Solo].tag = <<TAG_TMP_RAW>>
    /\ CriteriaGiven(call[Solo]) = 1
    /\ Len(FoundByCall(Solo)) = 3
    /\ FoundByCall(Solo)[1].deletedAt # Null
    /\ FoundByCall(Solo)[3].deletedAt = Null
    /\ ret[Solo].ids = <<FoundByCall(Solo)[1].id, FoundByCall(Solo)[3].id>>
    /\ Stored(store) = <<FoundByCall(Solo)[2]>>

----------------------------------------------------------------------------
(* The protocol server's memory_purge tool: a dry run of purge as preview,  *)
(* the confirmation asked of the user through elicitInput, then the purge.  *)
(* The server is process Solo; the other process mutates the same store.    *)
(* asked holds the tool's arguments and whether the client supports         *)
(* elicitation, answer how far the handler is and what it has got.          *)

\* the handler calls purge: everything up to acquireLock
PurgeToolCall(dry) ==
    /\ call' = [call EXCEPT ![Solo] =
                   [NoCall EXCEPT !.op = "purge", !.tag = asked'.tag, !.dryRun = dry]]
    /\ pc' = [pc EXCEPT ![Solo] = "acquire"]
    /\ ret' = [ret EXCEPT ![Solo] = NoRet]
    /\ elapsed' = [elapsed EXCEPT ![Solo] = 0]
    /\ acquired' = [acquired EXCEPT ![Solo] = FALSE]
    /\ Forget(Solo)

\* the handler of memory_purge, from one await to the next: the call of the
\* preview; what follows the preview; what follows the purge
MemoryPurge ==
    /\ pc[Solo] = "idle"
    /\ \/ /\ answer.op = "none"
          /\ asked' \in [tag : {<<TAG_TMP_RAW>>}, dryRun : BOOLEAN,
                         skipConfirmation : BOOLEAN, supports : BOOLEAN]
          /\ answer' = [op |-> "preview", preview |-> <<>>, elicited |-> "none",
                        removed |-> <<>>, text |-> "none"]
          /\ PurgeToolCall(TRUE)
       \/ /\ answer.op = "preview"
          /\ asked' = asked
          /\ IF ret[Solo].status # "ok"
             THEN /\ answer' = [answer EXCEPT !.op = "done", !.text = "error"]
                  /\ UNCHANGED <<call, pc, ret, elapsed, acquired, records, pending,
                                 before>>
             ELSE IF ret[Solo].ids = <<>> \/ asked.dryRun
             THEN /\ answer' = [answer EXCEPT
                                   !.op = "done",
                                   !.preview = ret[Solo].ids,
                                   !.text = IF ret[Solo].ids = <<>> THEN "nothing"
                                            ELSE "dry run"]
                  /\ UNCHANGED <<call, pc, ret, elapsed, acquired, records, pending,
                                 before>>
             ELSE IF ~asked.skipConfirmation
             THEN /\ answer' = [answer EXCEPT !.op = "elicit",
                                              !.preview = ret[Solo].ids]
                  /\ UNCHANGED <<call, pc, ret, elapsed, acquired, records, pending,
                                 before>>
             ELSE /\ answer' = [answer EXCEPT !.op = "purge",
                                              !.preview = ret[Solo].ids]
                  /\ PurgeToolCall(FALSE)
       \/ /\ answer.op = "purge"
          /\ asked' = asked
          /\ answer' = [answer EXCEPT
                           !.op = "done",
                           !.removed = ret[Solo].ids,
                           !.text = IF ret[Solo].status = "ok" THEN "purged"
                                    ELSE "error"]
          /\ UNCHANGED <<call, pc, ret, elapsed, acquired, records, pending, before>>
    /\ UNCHANGED <<store, lock, tmp, now, calls, faults, creator, serial, loaded,
                   alive>>

\* await server.server.elicitInput: the client's result, or an error when
\* the client has no elicitation or the request fails; then the handler goes
\* on to the purge or returns
ElicitInput ==
    /\ answer.op = "elicit"
    /\ asked' = asked
    /\ \E result \in IF asked.supports
                     THEN {"accept", "unconfirmed", "decline", "cancel", "failed"}
                     ELSE {"unsupported"} :
          IF result \in {"unconfirmed", "decline", "cancel"}
          THEN /\ answer' = [answer EXCEPT !.op = "done", !.elicited = result,
                                           !.text = "cancelled"]
               /\ UNCHANGED <<call, pc, ret, elapsed, acquired, records, pending,
                              before>>
          ELSE /\ answer' = [answer EXCEPT !.op = "purge", !.elicited = result]
               /\ PurgeToolCall(FALSE)
    /\ UNCHANGED <<store, lock, tmp, now, calls, faults, creator, serial, loaded,
                   alive>>

NextPurgeTool ==
    \/ MemoryPurge
    \/ ElicitInput
    \/ Step(Solo)
    \/ \E q \in Procs \ {Solo} : CallMutation(q)
    \/ \E q \in Procs \ {Solo} : Step(q)

SpecPurgeTool == Init /\ [][NextPurgeTool]_vars

\* the handler has called the purge that is not a dry run
PurgeCalled == answer.op \in {"purge", "done"} /\ ~call[Solo].dryRun

\* C38: on a client that supports elicitation, a memory_purge that is not a
\* dry run and does not skip the confirmation calls the purge only when the
\* elicitation has returned accept with confirm true; when the user declines,
\* cancels or leaves confirm false the server takes nothing out of the store
ConfirmedPurge ==
    (answer.op # "none" /\ asked.supports /\ ~asked.dryRun
        /\ ~asked.skipConfirmation) =>
        /\ PurgeCalled => answer.elicited = "accept"
        /\ answer.elicited \in {"unconfirmed", "decline", "cancel"} =>
              /\ answer.op = "done"
              /\ call[Solo].dryRun

\* C39: the records the purge of memory_purge took out are the records of
\* the preview shown for confirmation, whatever other processes did to the
\* store between the two calls
PreviewIsPurged ==
    (answer.op = "done" /\ answer.text = "purged") => answer.removed = answer.preview

----------------------------------------------------------------------------
(* A lock marker left behind *)

\* a process has stopped between creating the marker and unlinking it
Stale == \E p \in Procs : ~alive[p] /\ HoldsLock(p) /\ creator = p /\ lock.exists

\* q's call returns or throws in this step
Returns(q) == pc[q] # "idle" /\ pc'[q] = "idle"

\* only the process that created the marker unlinks it
UnlinkedByCreator ==
    (lock.exists /\ ~lock'.exists) =>
        \E p \in Procs : creator = p /\ pc[p] = "release" /\ pc'[p] = "idle"

\* while the marker is stale, it and the store file stay as they are, a
\* mutation that ends has thrown the lock timeout, and a read that ends has
\* returned what is in the store file
StaleLockStep ==
    Stale =>
        /\ lock' = lock
        /\ store' = store
        /\ \A q \in Procs :
              Returns(q) =>
                  IF call[q].op \in MutatingOps
                  THEN ret'[q] = Thrown("LockTimeout")
                  ELSE readJsonArray(store).error = "none" =>
                          /\ ret'[q].status = "ok"
                          /\ loaded'[q] = readJsonArray(store).records

\* C40: no operation unlinks a lock marker it did not create; once a process
\* has stopped while holding the lock the marker stays, every add, softDelete
\* and purge that asks for the lock afterwards, a dry run included, ends with
\* the lock timeout and the store file unchanged, and reads go on returning
\* the store's records
StaleLock == [][UnlinkedByCreator /\ StaleLockStep]_vars

\* a dry run of purge has ended with the lock timeout, the marker of the
\* process that stopped after its rename still there
StaleLockWitness ==
    \E p \in Procs : \E q \in Procs \ {p} :
        /\ ~alive[p] /\ pc[p] = "release" /\ creator = p /\ lock.exists
        /\ call[q].op = "purge" /\ call[q].dryRun
        /\ pc[q] = "idle"
        /\ ret[q] = Thrown("LockTimeout")
        /\ store # Absent

\* an add has ended with the lock timeout behind a stale marker
StaleLockAddWitness ==
    \E p \in Procs : \E q \in Procs \ {p} :
        /\ ~alive[p] /\ HoldsLock(p) /\ creator = p /\ lock.exists
        /\ call[q].op = "add"
        /\ pc[q] = "idle"
        /\ ret[q] = Thrown("LockTimeout")

\* a search has returned behind a stale marker
StaleLockReadWitness ==
    \E p \in Procs : \E q \in Procs \ {p} :
        /\ ~alive[p] /\ HoldsLock(p) /\ creator = p /\ lock.exists
        /\ call[q].op = "search"
        /\ pc[q] = "idle"
        /\ ret[q].status = "ok"
        /\ loaded[q] # <<>>

====
